---------------------------- MODULE Spec2Model ----------------------------
(***************************************************************************)
(* @aikotools/datacompare: the directive parser, the directive registry,   *)
(* the built-in directives, the recursive comparer and the engine facade.  *)
(*                                                                         *)
(* A JavaScript string is a sequence of one-character strings, so that the *)
(* parser's regular expressions, slices and splits are computed on the     *)
(* characters.  A JavaScript value is a tagged record (see Values).        *)
(***************************************************************************)
EXTENDS Integers, Sequences, FiniteSets, TLC

(***************************************************************************)
(* Strings                                                                 *)
(***************************************************************************)

\* "{{compare:" (CompareParser.ts:17, :48) and "}}"
\* a const of the source: the value is computed once and the rest of the
\* block, rest, reads it
Let(value, rest(_)) == rest(value)

OPEN == <<"{", "{", "c", "o", "m", "p", "a", "r", "e", ":">>

CLOSE == <<"}", "}">>

\* the characters String.prototype.trim removes
WhiteSpace == {" ", "\t", "\n", "\r", "\f"}

\* the characters the regular expression's "." does not match
LineTerminators == {"\n", "\r"}

RECURSIVE TrimStart(_)
TrimStart(s) ==
    IF s # <<>> /\ Head(s) \in WhiteSpace THEN TrimStart(Tail(s)) ELSE s

RECURSIVE TrimEnd(_)
TrimEnd(s) ==
    IF s # <<>> /\ s[Len(s)] \in WhiteSpace
    THEN TrimEnd(SubSeq(s, 1, Len(s) - 1))
    ELSE s

\* String.prototype.trim
Trim(s) == TrimEnd(TrimStart(s))

\* String.prototype.startsWith / endsWith / includes
StartsWith(s, p) == Len(p) <= Len(s) /\ SubSeq(s, 1, Len(p)) = p

EndsWith(s, p) == Len(p) <= Len(s) /\ SubSeq(s, Len(s) - Len(p) + 1, Len(s)) = p

Includes(s, p) ==
    \E i \in 0..(Len(s) - Len(p)) : SubSeq(s, i + 1, i + Len(p)) = p

\* String.prototype.slice(from, -fromEnd) with from >= 0 and fromEnd >= 0
Slice(s, from, fromEnd) == SubSeq(s, from + 1, Len(s) - fromEnd)

\* String.prototype.split(sep) for a one-character separator
RECURSIVE SplitFrom(_, _, _, _)
SplitFrom(s, sep, i, current) ==
    IF i > Len(s) THEN <<current>>
    ELSE IF s[i] = sep THEN <<current>> \o SplitFrom(s, sep, i + 1, <<>>)
    ELSE SplitFrom(s, sep, i + 1, Append(current, s[i]))

Split(s, sep) == SplitFrom(s, sep, 1, <<>>)

\* Array.prototype.join(sep) on an array of strings
RECURSIVE Join(_, _)
Join(parts, sep) ==
    IF parts = <<>> THEN <<>>
    ELSE IF Len(parts) = 1 THEN parts[1]
    ELSE parts[1] \o sep \o Join(Tail(parts), sep)

Digits == <<"0", "1", "2", "3", "4", "5", "6", "7", "8", "9">>

\* String(i) for an integer i >= 0
RECURSIVE NatToString(_)
NatToString(i) ==
    IF i < 10 THEN <<Digits[i + 1]>>
    ELSE NatToString(i \div 10) \o <<Digits[(i % 10) + 1]>>

(***************************************************************************)
(* CompareParser                                                           *)
(***************************************************************************)

\* /^\{\{compare:.+?\}\}$/.test(value.trim()): the lazy ".+?" is followed by
\* "\}\}$", so it grows until the closing braces are the last two characters.
isDirective(value) ==
    Let(Trim(value), LAMBDA t :
        /\ Len(t) >= Len(OPEN) + 1 + Len(CLOSE)
        /\ StartsWith(t, OPEN)
        /\ EndsWith(t, CLOSE)
        /\ \A i \in (Len(OPEN) + 1)..(Len(t) - Len(CLOSE)) : t[i] \notin LineTerminators)

\* splitByUnescapedColon: the while loop from position i (1-based)
RECURSIVE splitLoop(_, _, _, _)
splitLoop(str, i, current, result) ==
    IF i > Len(str)
    THEN IF Len(current) > 0 \/ EndsWith(str, <<":">>)
         THEN Append(result, current)
         ELSE result
    ELSE IF str[i] = "\\" /\ i + 1 <= Len(str) /\ str[i + 1] = ":"
         THEN splitLoop(str, i + 2, Append(current, ":"), result)
    ELSE IF str[i] = ":"
         THEN splitLoop(str, i + 1, <<>>, Append(result, current))
    ELSE splitLoop(str, i + 1, Append(current, str[i]), result)

splitByUnescapedColon(str) == splitLoop(str, 1, <<>>, <<>>)

\* parseTransform.  segments[0] of an empty array is undefined: modelled as
\* the empty name.
parseTransform(transformStr) ==
    Let(splitByUnescapedColon(transformStr), LAMBDA segments :
        [name |-> IF segments = <<>> THEN <<>> ELSE segments[1],
         params |-> IF segments = <<>> THEN <<>> ELSE Tail(segments)])

\* parse: threw = TRUE stands for the Error the method throws
parse(directive) ==
    IF ~isDirective(directive)
    THEN [threw |-> TRUE, error |-> "Invalid directive format"]
    ELSE Let(Split(Slice(directive, 10, 2), "|"), LAMBDA parts :
         Let(splitByUnescapedColon(parts[1]), LAMBDA mainSegments :
             IF Len(mainSegments) = 0
             THEN [threw |-> TRUE, error |-> "Invalid directive: missing action"]
             ELSE [threw |-> FALSE,
                   original |-> directive,
                   action |-> mainSegments[1],
                   args |-> Tail(mainSegments),
                   transforms |-> [k \in 1..(Len(parts) - 1) |-> parseTransform(parts[k + 1])]]))

(***************************************************************************)
(* Values: the untyped trees of the request.  An object keeps its own      *)
(* properties in Object.keys order.                                        *)
(***************************************************************************)

Undefined == [t |-> "undefined"]

Null == [t |-> "null"]

Bool(b) == [t |-> "boolean", b |-> b]

Num(n) == [t |-> "number", n |-> n]

Str(s) == [t |-> "string", s |-> s]

Arr(items) == [t |-> "array", a |-> items]

\* props: a sequence of [k |-> key, v |-> value] with distinct keys
Obj(props) == [t |-> "object", o |-> props]

Prop(k, v) == [k |-> k, v |-> v]

IsArray(v) == v.t = "array"

S_undefined == <<"u", "n", "d", "e", "f", "i", "n", "e", "d">>

S_object == <<"o", "b", "j", "e", "c", "t">>

S_boolean == <<"b", "o", "o", "l", "e", "a", "n">>

S_number == <<"n", "u", "m", "b", "e", "r">>

S_string == <<"s", "t", "r", "i", "n", "g">>

S_array == <<"a", "r", "r", "a", "y">>

S_root == <<"r", "o", "o", "t">>

S_function == <<"f", "u", "n", "c", "t", "i", "o", "n">>

\* the typeof operator
typeof(v) ==
    CASE v.t = "undefined" -> S_undefined
      [] v.t = "boolean" -> S_boolean
      [] v.t = "number" -> S_number
      [] v.t = "string" -> S_string
      [] v.t = "function" -> S_function
      [] OTHER -> S_object

\* ToBoolean, as used by "options.maxDepth && ...", "!options.ignoreExtraProperties"
Truthy(v) ==
    CASE v.t = "undefined" -> FALSE
      [] v.t = "null" -> FALSE
      [] v.t = "boolean" -> v.b
      [] v.t = "number" -> v.n # 0
      [] v.t = "string" -> v.s # <<>>
      [] OTHER -> TRUE

\* Object.keys(obj): the own enumerable property names
Keys(obj) == [i \in 1..Len(obj.o) |-> obj.o[i].k]

HasOwn(obj, key) == \E i \in 1..Len(obj.o) : obj.o[i].k = key

\* names every plain object inherits from Object.prototype (four of them)
ObjectPrototypeKeys ==
    { <<"c", "o", "n", "s", "t", "r", "u", "c", "t", "o", "r">>,
      <<"t", "o", "S", "t", "r", "i", "n", "g">>,
      <<"v", "a", "l", "u", "e", "O", "f">>,
      <<"h", "a", "s", "O", "w", "n", "P", "r", "o", "p", "e", "r", "t", "y">> }

\* the "in" operator on a plain object: own or inherited property
HasKey(obj, key) == HasOwn(obj, key) \/ key \in ObjectPrototypeKeys

\* obj[key]: the own property, else the inherited method, else undefined
GetProp(obj, key) ==
    IF HasOwn(obj, key)
    THEN obj.o[CHOOSE i \in 1..Len(obj.o) : obj.o[i].k = key].v
    ELSE IF key \in ObjectPrototypeKeys THEN [t |-> "function", name |-> key]
    ELSE Undefined

\* a field of a plain options/context object whose keys are a subset of a
\* fixed set: absent keys read as undefined
Field(rec, name) == IF name \in DOMAIN rec THEN rec[name] ELSE Undefined

\* a template string of the source with its interpolated values
Msg(fmt, args) == [fmt |-> fmt, args |-> args]

NoMsg == Msg("", <<>>)

\* String(n) for an integer
IntToString(n) == IF n < 0 THEN <<"-">> \o NatToString(-n) ELSE NatToString(n)

(***************************************************************************)
(* Numbers and timestamps of the built-in directives.  Numbers are         *)
(* integers; the pseudo-character "+-" stands for the plus-minus sign.     *)
(***************************************************************************)

PlusMinus == "+-"

DigitVal(c) == CHOOSE d \in 0..9 : Digits[d + 1] = c

IsDigit(c) == \E d \in 1..10 : Digits[d] = c

\* the value of the longest run of digits of s from position i, or -1 if none
RECURSIVE DigitRun(_, _, _)
DigitRun(s, i, acc) ==
    IF i <= Len(s) /\ IsDigit(s[i])
    THEN DigitRun(s, i + 1, (IF acc < 0 THEN 0 ELSE acc * 10) + DigitVal(s[i]))
    ELSE acc

\* parseFloat on strings whose numeric prefix is an integer literal: leading
\* white space, an optional sign, digits; anything after the digits is ignored
parseFloat(str) ==
    Let(TrimStart(str), LAMBDA t :
    Let(t # <<>> /\ t[1] \in {"+", "-"}, LAMBDA signed :
    Let(DigitRun(t, IF signed THEN 2 ELSE 1, -1), LAMBDA mag :
        IF mag < 0 THEN [nan |-> TRUE]
        ELSE [nan |-> FALSE, v |-> IF signed /\ t[1] = "-" THEN -mag ELSE mag])))

Abs(x) == IF x < 0 THEN -x ELSE x

\* NumberUtils.parseNumberRange
parseNumberRange(minStr, maxStr) ==
    Let(parseFloat(minStr), LAMBDA min :
    Let(parseFloat(maxStr), LAMBDA max :
        IF min.nan \/ max.nan THEN [threw |-> TRUE, error |-> "Invalid number range"]
        ELSE IF min.v > max.v
        THEN [threw |-> TRUE, error |-> "Invalid range: min cannot be greater than max"]
        ELSE [threw |-> FALSE, min |-> min.v, max |-> max.v]))

\* NumberUtils.parseNumberTolerance
parseNumberTolerance(valueStr, toleranceStr) ==
    Let(parseFloat(valueStr), LAMBDA value :
    Let(EndsWith(toleranceStr, <<"%">>), LAMBDA isPercentage :
    Let(IF isPercentage THEN Slice(toleranceStr, 0, 1) ELSE toleranceStr, LAMBDA toleranceNumStr :
    Let(IF StartsWith(toleranceNumStr, <<PlusMinus>>)
        THEN Tail(toleranceNumStr) ELSE toleranceNumStr, LAMBDA cleanTolerance :
    Let(parseFloat(cleanTolerance), LAMBDA tolerance :
        IF value.nan THEN [threw |-> TRUE, error |-> "Invalid value"]
        ELSE IF tolerance.nan \/ tolerance.v < 0
        THEN [threw |-> TRUE, error |-> "Invalid tolerance"]
        ELSE [threw |-> FALSE, value |-> value.v, tolerance |-> tolerance.v,
              isPercentage |-> isPercentage])))))

\* NumberUtils.isNumberInRange
isNumberInRange(actual, range) ==
    [inRange |-> actual >= range.min /\ actual <= range.max,
     distance |-> IF actual < range.min THEN range.min - actual
                  ELSE IF actual > range.max THEN actual - range.max
                  ELSE 0]

\* NumberUtils.isNumberWithinTolerance.  allowedDifference is kept as the
\* fraction num/den, and difference <= num/den is decided on integers.
isNumberWithinTolerance(actual, spec) ==
    LET num == IF spec.isPercentage THEN Abs(spec.value) * spec.tolerance ELSE spec.tolerance
        den == IF spec.isPercentage THEN 100 ELSE 1
        difference == Abs(actual - spec.value)
    IN [within |-> difference * den <= num, difference |-> difference,
        allowedNum |-> num, allowedDen |-> den]

(***************************************************************************)
(* TimeUtils over luxon.  An instant is [d |-> days since 1970-01-01,      *)
(* ms |-> millisecond of the UTC day], which keeps every quantity inside   *)
(* 32-bit integers.  ISO-8601 strings are those of                          *)
(* the form YYYY-MM-DDTHH:MM:SS with an optional Z or +HH:MM / -HH:MM.     *)
(***************************************************************************)

IsLeap(y) == (y % 4 = 0 /\ y % 100 # 0) \/ y % 400 = 0

DaysInMonth(y, m) ==
    IF m = 2 THEN (IF IsLeap(y) THEN 29 ELSE 28)
    ELSE IF m \in {4, 6, 9, 11} THEN 30 ELSE 31

\* days from 1970-01-01 to the civil date y-m-d (proleptic Gregorian)
DaysFromCivil(y, m, d) ==
    LET yy == IF m <= 2 THEN y - 1 ELSE y
        era == yy \div 400
        yoe == yy - era * 400
        doy == (153 * (IF m > 2 THEN m - 3 ELSE m + 9) + 2) \div 5 + d - 1
        doe == yoe * 365 + yoe \div 4 - yoe \div 100 + doy
    IN era * 146097 + doe - 719468

\* the civil date of a day number
CivilFromDays(z) ==
    LET zz == z + 719468
        era == zz \div 146097
        doe == zz - era * 146097
        yoe == (doe - doe \div 1460 + doe \div 36524 - doe \div 146096) \div 365
        doy == doe - (365 * yoe + yoe \div 4 - yoe \div 100)
        mp == (5 * doy + 2) \div 153
        m == IF mp < 10 THEN mp + 3 ELSE mp - 9
    IN [year |-> yoe + era * 400 + (IF m <= 2 THEN 1 ELSE 0),
        month |-> m,
        day |-> doy - (153 * mp + 2) \div 5 + 1]

SecPerDay == 24 * 3600

MsPerDay == SecPerDay * 1000

\* an instant moved by a number of whole seconds plus milliseconds
PlusSecMs(t, sec, ms) ==
    LET m == t.ms + ms + (sec % SecPerDay) * 1000
    IN [d |-> t.d + sec \div SecPerDay + m \div MsPerDay, ms |-> m % MsPerDay]

\* the n-digit number at position i of s, or -1
FixedDigits(s, i, n) ==
    IF i + n - 1 <= Len(s) /\ \A k \in i..(i + n - 1) : IsDigit(s[k])
    THEN DigitRun(SubSeq(s, i, i + n - 1), 1, -1)
    ELSE -1

\* the zone suffix of an ISO string: offset in minutes, or invalid
IsoZone(z) ==
    IF z = <<>> \/ z = <<"Z">> THEN [valid |-> TRUE, minutes |-> 0]
    ELSE IF Len(z) = 6 /\ z[1] \in {"+", "-"} /\ z[4] = ":"
              /\ FixedDigits(z, 2, 2) \in 0..23 /\ FixedDigits(z, 5, 2) \in 0..59
         THEN [valid |-> TRUE,
               minutes |-> (IF z[1] = "-" THEN -1 ELSE 1)
                            * (FixedDigits(z, 2, 2) * 60 + FixedDigits(z, 5, 2))]
    ELSE [valid |-> FALSE]

\* DateTime.fromISO(value, {zone: 'utc'})
fromISO(s) ==
    LET y == FixedDigits(s, 1, 4)
        mo == FixedDigits(s, 6, 2)
        d == FixedDigits(s, 9, 2)
        h == FixedDigits(s, 12, 2)
        mi == FixedDigits(s, 15, 2)
        se == FixedDigits(s, 18, 2)
        zone == IsoZone(SubSeq(s, 20, Len(s)))
    IN IF /\ Len(s) >= 19
          /\ s[5] = "-" /\ s[8] = "-" /\ s[11] = "T" /\ s[14] = ":" /\ s[17] = ":"
          /\ y >= 0 /\ mo \in 1..12 /\ d >= 1 /\ d <= DaysInMonth(y, mo)
          /\ h \in 0..23 /\ mi \in 0..59 /\ se \in 0..59
          /\ zone.valid
       THEN [isValid |-> TRUE,
             t |-> PlusSecMs([d |-> DaysFromCivil(y, mo, d), ms |-> 0],
                             h * 3600 + mi * 60 + se - zone.minutes * 60, 0)]
       ELSE [isValid |-> FALSE]

\* value < 10000000000, computed without leaving 32 bits
BelowTenBillion(n) == n \div 100000 < 100000

\* TimeUtils.parseTimestamp
parseTimestamp(value) ==
    IF value.t = "string"
    THEN Let(fromISO(value.s), LAMBDA dt :
             IF ~dt.isValid THEN [threw |-> TRUE, error |-> "Invalid ISO timestamp"]
             ELSE [threw |-> FALSE, t |-> dt.t])
    ELSE IF value.t = "number"
    THEN IF BelowTenBillion(value.n)
         THEN [threw |-> FALSE, t |-> PlusSecMs([d |-> 0, ms |-> 0], value.n, 0)]
         ELSE [threw |-> FALSE,
               t |-> PlusSecMs([d |-> 0, ms |-> 0], value.n \div 1000, value.n % 1000)]
    ELSE [threw |-> TRUE, error |-> "Unsupported timestamp type"]

\* TimeUtils.getBaseTime; clock is what DateTime.utc() returns at this call
getBaseTime(context, clock) ==
    IF Truthy(Field(context, "startTimeTest"))
    THEN parseTimestamp(context.startTimeTest)
    ELSE IF Truthy(Field(context, "startTimeScript"))
    THEN parseTimestamp(context.startTimeScript)
    ELSE [threw |-> FALSE, t |-> clock]

U_milliseconds == <<"m", "i", "l", "l", "i", "s", "e", "c", "o", "n", "d", "s">>

U_seconds == <<"s", "e", "c", "o", "n", "d", "s">>

U_minutes == <<"m", "i", "n", "u", "t", "e", "s">>

U_hours == <<"h", "o", "u", "r", "s">>

U_days == <<"d", "a", "y", "s">>

U_weeks == <<"w", "e", "e", "k", "s">>

U_months == <<"m", "o", "n", "t", "h", "s">>

U_years == <<"y", "e", "a", "r", "s">>

validUnits ==
    <<U_milliseconds, U_seconds, U_minutes, U_hours, U_days, U_weeks, U_months, U_years>>

\* the seconds in one unit of luxon's casual conversion (a month is 30 days,
\* a year 365); not used for milliseconds
UnitSeconds(unit) ==
    CASE unit = U_seconds -> 1
      [] unit = U_minutes -> 60
      [] unit = U_hours -> 3600
      [] unit = U_days -> SecPerDay
      [] unit = U_weeks -> 7 * SecPerDay
      [] unit = U_months -> 30 * SecPerDay
      [] unit = U_years -> 365 * SecPerDay

\* a.diff(b): [sec, ms] with a - b = sec * 1000 + ms milliseconds, 0 <= ms < 1000
Diff(a, b) ==
    LET dms == a.ms - b.ms
    IN [sec |-> (a.d - b.d) * SecPerDay + dms \div 1000, ms |-> dms % 1000]

\* diff.as(unit) >= bound and diff.as(unit) <= bound, for an integer bound
DiffAtLeast(diff, unit, bound) ==
    IF unit = U_milliseconds
    THEN diff.sec > bound \div 1000 \/ (diff.sec = bound \div 1000 /\ diff.ms >= bound % 1000)
    ELSE diff.sec >= bound * UnitSeconds(unit)

DiffAtMost(diff, unit, bound) ==
    IF unit = U_milliseconds
    THEN diff.sec < bound \div 1000 \/ (diff.sec = bound \div 1000 /\ diff.ms <= bound % 1000)
    ELSE diff.sec + (IF diff.ms > 0 THEN 1 ELSE 0) <= bound * UnitSeconds(unit)

\* TimeUtils.isTimeInRange
isTimeInRange(actualTime, baseTime, range) ==
    Let(Diff(actualTime, baseTime), LAMBDA diff :
        [inRange |-> DiffAtLeast(diff, range.unit, range.before)
                     /\ DiffAtMost(diff, range.unit, range.after),
         difference |-> diff])

\* a faulty variant of calculateTime: the offset is dropped
calculateTime_withoutOffset(baseTime, offset, unit) == baseTime

\* TimeUtils.calculateTime: baseTime.plus({[unit]: offset}) in the UTC zone
calculateTime(baseTime, offset, unit) ==
    IF unit = U_milliseconds THEN PlusSecMs(baseTime, offset \div 1000, offset % 1000)
    ELSE IF unit \in {U_seconds, U_minutes, U_hours, U_days, U_weeks}
    THEN PlusSecMs(baseTime, offset * UnitSeconds(unit), 0)
    ELSE Let(CivilFromDays(baseTime.d), LAMBDA c :
         Let(c.year + (IF unit = U_years THEN offset ELSE 0), LAMBDA year :
         Let(c.month + (IF unit = U_months THEN offset ELSE 0), LAMBDA month :
         Let(((month - 1) % 12) + 1, LAMBDA modMonth :
         Let(year + (month - modMonth) \div 12, LAMBDA modYear :
         Let(IF c.day < DaysInMonth(modYear, modMonth)
             THEN c.day ELSE DaysInMonth(modYear, modMonth), LAMBDA day :
             [d |-> DaysFromCivil(modYear, modMonth, day), ms |-> baseTime.ms]))))))

(***************************************************************************)
(* Directives.  createMatcher returns either threw = TRUE (the Error it    *)
(* throws) or the data of the predicate it returns; Match applies that     *)
(* predicate to one actual value.                                          *)
(***************************************************************************)

N_startsWith == <<"s", "t", "a", "r", "t", "s", "W", "i", "t", "h">>

N_endsWith == <<"e", "n", "d", "s", "W", "i", "t", "h">>

N_contains == <<"c", "o", "n", "t", "a", "i", "n", "s">>

N_regex == <<"r", "e", "g", "e", "x">>

N_number == <<"n", "u", "m", "b", "e", "r">>

N_time == <<"t", "i", "m", "e">>

S_range == <<"r", "a", "n", "g", "e">>

S_tolerance == <<"t", "o", "l", "e", "r", "a", "n", "c", "e">>

S_exact == <<"e", "x", "a", "c", "t">>

Threw(error) == [threw |-> TRUE, error |-> error]

Matcher(m) == [threw |-> FALSE, m |-> m]

\* StartsWithDirective / EndsWithDirective / ContainsDirective .createMatcher
createStringMatcher(kind, directive) ==
    IF Len(directive.args) = 0
    THEN Threw("directive requires at least one argument")
    ELSE Matcher([kind |-> kind, pattern |-> Join(directive.args, <<":">>)])

\* new RegExp(pattern) on the patterns of the model: literal characters; a
\* "(" or "[" that is never closed, or a leading quantifier, is a SyntaxError
RegExpValid(pattern) ==
    /\ \A i \in 1..Len(pattern) :
          /\ pattern[i] = "(" => \E j \in (i + 1)..Len(pattern) : pattern[j] = ")"
          /\ pattern[i] = "[" => \E j \in (i + 1)..Len(pattern) : pattern[j] = "]"
    /\ pattern = <<>> \/ pattern[1] \notin {"*", "+", "?"}

\* regex.test(actual) for a pattern of literal characters
RegExpTest(pattern, actual) == Includes(actual, pattern)

\* RegexDirective.createMatcher
createRegexMatcher(directive) ==
    IF Len(directive.args) = 0
    THEN Threw("regex directive requires at least one argument")
    ELSE Let(Join(directive.args, <<":">>), LAMBDA pattern :
             IF ~RegExpValid(pattern) THEN Threw("Invalid regex pattern")
             ELSE Matcher([kind |-> "regex", pattern |-> pattern]))

\* NumberDirective.createRangeMatcher
createNumberRangeMatcher(args) ==
    IF Len(args) < 2 THEN Threw("number:range requires 2 arguments: min and max")
    ELSE Let(parseNumberRange(args[1], args[2]), LAMBDA range :
             IF range.threw THEN range
             ELSE Matcher([kind |-> "numberRange", min |-> range.min, max |-> range.max]))

\* NumberDirective.createToleranceMatcher
createNumberToleranceMatcher(args) ==
    IF Len(args) < 2
    THEN Threw("number:tolerance requires 2 arguments: value and tolerance")
    ELSE Let(parseNumberTolerance(args[1], args[2]), LAMBDA spec :
             IF spec.threw THEN spec
             ELSE Matcher([kind |-> "numberTolerance", value |-> spec.value,
                           tolerance |-> spec.tolerance, isPercentage |-> spec.isPercentage]))

\* NumberDirective.createMatcher
createNumberMatcher(directive) ==
    IF Len(directive.args) = 0
    THEN Threw("number directive requires at least one argument")
    ELSE IF directive.args[1] = S_range
    THEN createNumberRangeMatcher(Tail(directive.args))
    ELSE IF directive.args[1] = S_tolerance
    THEN createNumberToleranceMatcher(Tail(directive.args))
    ELSE Threw("Unknown number mode")

IsValidUnit(unit) == \E i \in 1..Len(validUnits) : validUnits[i] = unit

\* TimeDirective.createRangeMatcher
createTimeRangeMatcher(args) ==
    IF Len(args) < 2 THEN Threw("time:range requires at least 2 arguments")
    ELSE Let(args[Len(args)], LAMBDA unit :
         IF ~IsValidUnit(unit) THEN Threw("Invalid time unit")
         ELSE IF Len(args) = 3
         THEN Let(parseFloat(args[1]), LAMBDA before :
              Let(parseFloat(args[2]), LAMBDA after :
                  IF before.nan \/ after.nan THEN Threw("Invalid time range values")
                  ELSE Matcher([kind |-> "timeRange", before |-> before.v,
                                after |-> after.v, unit |-> unit])))
         ELSE IF Len(args) = 2
         THEN Let(parseFloat(args[1]), LAMBDA value :
                  IF value.nan THEN Threw("Invalid time range value")
                  ELSE IF value.v >= 0
                  THEN Matcher([kind |-> "timeRange", before |-> 0, after |-> value.v,
                                unit |-> unit])
                  ELSE Matcher([kind |-> "timeRange", before |-> value.v, after |-> 0,
                                unit |-> unit]))
         ELSE Threw("Invalid number of arguments for time:range. Expected 2 or 3"))

\* TimeDirective.createExactMatcher
createTimeExactMatcher(args) ==
    IF Len(args) = 0
    THEN Matcher([kind |-> "timeExact", offset |-> 0, unit |-> U_seconds])
    ELSE IF Len(args) # 2
    THEN Threw("time:exact with offset requires exactly 2 arguments: offset and unit")
    ELSE Let(parseFloat(args[1]), LAMBDA offset :
             IF offset.nan THEN Threw("Invalid time offset")
             ELSE IF ~IsValidUnit(args[2]) THEN Threw("Invalid time unit")
             ELSE Matcher([kind |-> "timeExact", offset |-> offset.v, unit |-> args[2]]))

\* TimeDirective.createMatcher
createTimeMatcher(directive) ==
    IF Len(directive.args) = 0
    THEN Threw("time directive requires at least one argument")
    ELSE IF directive.args[1] = S_range
    THEN createTimeRangeMatcher(Tail(directive.args))
    ELSE IF directive.args[1] = S_exact
    THEN createTimeExactMatcher(Tail(directive.args))
    ELSE Threw("Unknown time mode")

\* A directive registered by a caller through the extension surface: what its
\* createMatcher does (create) and what the predicate it returns does (match)
CustomDirective(name, create, match) ==
    [name |-> name, kind |-> "custom", create |-> create, match |-> match]

BuiltinDirective(name) == [name |-> name, kind |-> "builtin"]

\* directive.createMatcher({directive: parsed, context, registry})
createMatcher(directive, parsed) ==
    IF directive.kind = "custom"
    THEN IF directive.create = "throw" THEN Threw("custom directive failed")
         ELSE Matcher([kind |-> "custom", match |-> directive.match])
    ELSE CASE directive.name = N_startsWith -> createStringMatcher("startsWith", parsed)
           [] directive.name = N_endsWith -> createStringMatcher("endsWith", parsed)
           [] directive.name = N_contains -> createStringMatcher("contains", parsed)
           [] directive.name = N_regex -> createRegexMatcher(parsed)
           [] directive.name = N_number -> createNumberMatcher(parsed)
           [] directive.name = N_time -> createTimeMatcher(parsed)

Pass(details) == [threw |-> FALSE, success |-> TRUE, details |-> details]

Fail(error) == [threw |-> FALSE, success |-> FALSE, error |-> error]

\* the predicates of the three string-pattern directives and of regex
MatchString(m, actual) ==
    IF actual.t # "string" THEN Fail(Msg("Expected string, got %s", <<typeof(actual)>>))
    ELSE CASE m.kind = "startsWith" ->
                 IF StartsWith(actual.s, m.pattern)
                 THEN Pass(Msg("String starts with '%s'", <<m.pattern>>))
                 ELSE Fail(Msg("Expected string to start with '%s', but got '%s'",
                               <<m.pattern, actual.s>>))
           [] m.kind = "endsWith" ->
                 IF EndsWith(actual.s, m.pattern)
                 THEN Pass(Msg("String ends with '%s'", <<m.pattern>>))
                 ELSE Fail(Msg("Expected string to end with '%s', but got '%s'",
                               <<m.pattern, actual.s>>))
           [] m.kind = "contains" ->
                 IF Includes(actual.s, m.pattern)
                 THEN Pass(Msg("String contains '%s'", <<m.pattern>>))
                 ELSE Fail(Msg("Expected string to contain '%s', but got '%s'",
                               <<m.pattern, actual.s>>))
           [] m.kind = "regex" ->
                 IF RegExpTest(m.pattern, actual.s)
                 THEN Pass(Msg("String matches pattern /%s/", <<m.pattern>>))
                 ELSE Fail(Msg("Expected string to match pattern /%s/, but got '%s'",
                               <<m.pattern, actual.s>>))

\* the predicates of the number directive
MatchNumber(m, actual) ==
    IF actual.t # "number" THEN Fail(Msg("Expected number, got %s", <<typeof(actual)>>))
    ELSE IF m.kind = "numberRange"
    THEN Let(isNumberInRange(actual.n, m), LAMBDA result :
             IF result.inRange
             THEN Pass(Msg("Number %s is within range", <<IntToString(actual.n)>>))
             ELSE Fail(Msg("Number %s is outside range (distance: %s)",
                           <<IntToString(actual.n), IntToString(result.distance)>>)))
    ELSE Let(isNumberWithinTolerance(actual.n, m), LAMBDA result :
             IF result.within
             THEN Pass(Msg("Number %s is within tolerance", <<IntToString(actual.n)>>))
             ELSE Fail(Msg("Number %s exceeds tolerance (difference: %s)",
                           <<IntToString(actual.n), IntToString(result.difference)>>)))

\* String(diff.as('milliseconds')) of a difference [sec, ms]
MillisToString(diff) ==
    LET q == IF diff.sec >= 0 THEN diff.sec
             ELSE IF diff.ms > 0 THEN -diff.sec - 1 ELSE -diff.sec
        r == IF diff.sec >= 0 \/ diff.ms = 0 THEN diff.ms ELSE 1000 - diff.ms
        digits == IF q = 0 THEN NatToString(r)
                  ELSE NatToString(q) \o <<Digits[r \div 100 + 1], Digits[((r \div 10) % 10) + 1],
                                           Digits[(r % 10) + 1]>>
    IN IF diff.sec < 0 THEN <<"-">> \o digits ELSE digits

\* the predicates of the time directive; every throw inside is caught there
MatchTime(m, actual, context, clock) ==
    Let(parseTimestamp(actual), LAMBDA actualTime :
    Let(getBaseTime(context, clock), LAMBDA baseTime :
        IF actualTime.threw THEN Fail(Msg("Time parsing error", <<>>))
        ELSE IF baseTime.threw THEN Fail(Msg("Time parsing error", <<>>))
        ELSE IF m.kind = "timeRange"
        THEN IF isTimeInRange(actualTime.t, baseTime.t, m).inRange
             THEN Pass(Msg("Time within range", <<>>))
             ELSE Fail(Msg("Time outside range", <<>>))
        ELSE Let(Diff(actualTime.t, calculateTime(baseTime.t, m.offset, m.unit)), LAMBDA diff :
             IF diff = [sec |-> 0, ms |-> 0]
             THEN Pass(Msg("Time matches exactly", <<>>))
             ELSE Fail(Msg("Time mismatch, difference: %s milliseconds",
                           <<MillisToString(diff)>>)))))

\* matcherFn(actual, expectedDirective, matchContext)
Match(m, actual, context, clock) ==
    CASE m.kind = "custom" ->
             IF m.match = "throw" THEN Threw("custom predicate failed")
             ELSE IF m.match = "pass" THEN Pass(NoMsg)
             ELSE Fail(NoMsg)
      [] m.kind \in {"numberRange", "numberTolerance"} -> MatchNumber(m, actual)
      [] m.kind \in {"timeRange", "timeExact"} -> MatchTime(m, actual, context, clock)
      [] OTHER -> MatchString(m, actual)

(***************************************************************************)
(* CompareRegistry: the directives map, in insertion order                 *)
(***************************************************************************)

hasDirective(directives, name) == \E i \in 1..Len(directives) : directives[i].name = name

\* getDirective: threw = TRUE is "Unknown directive"
getDirective(directives, name) ==
    IF hasDirective(directives, name)
    THEN [threw |-> FALSE,
          directive |-> directives[CHOOSE i \in 1..Len(directives) : directives[i].name = name]]
    ELSE Threw("Unknown directive")

\* createDefaultEngine: the six built-in directives in registration order
DefaultDirectives ==
    << BuiltinDirective(N_startsWith), BuiltinDirective(N_endsWith),
       BuiltinDirective(N_regex), BuiltinDirective(N_contains),
       BuiltinDirective(N_time), BuiltinDirective(N_number) >>

(***************************************************************************)
(* RecursiveComparer.  The walk is written in state-passing style: every   *)
(* method takes the comparer st (its fields errors, details, currentDepth, *)
(* maxDepthReached) and returns it as the method leaves it.                *)
(*   st.threw   an exception is propagating out of the method              *)
(*   st.clock   the wall clock (what DateTime.utc() would return now)      *)
(* and four histories of what the walk did:                                *)
(*   st.calls   one entry per compareInternal call: path, depth, the branch*)
(*              taken, and the two values it was called on                 *)
(*   st.lookups the names passed to registry.getDirective                  *)
(*   st.caught  the paths at which compareWithDirective's catch ran        *)
(*   st.trials  one entry per testMatch: where in the tree it was made and  *)
(*              the temporary comparer as its walk left it                 *)
(* The comparer also holds its registry (the directives map).  cx holds    *)
(* what stays fixed during a walk: context, options, and tick, the time    *)
(* one directive evaluation takes.                                         *)
(***************************************************************************)

KW_EXACT == OPEN \o S_exact \o CLOSE

KW_IGNORE == OPEN \o <<"i", "g", "n", "o", "r", "e">> \o CLOSE

KW_IGNORE_REST == OPEN \o <<"i", "g", "n", "o", "r", "e", "R", "e", "s", "t">> \o CLOSE

KW_IGNORE_ORDER == OPEN \o <<"i", "g", "n", "o", "r", "e", "O", "r", "d", "e", "r">> \o CLOSE

\* isKeyword
isKeyword(value) == value \in {KW_EXACT, KW_IGNORE, KW_IGNORE_REST, KW_IGNORE_ORDER}

\* path.join('.') || 'root'
PathString(path) ==
    LET joined == Join(path, <<".">>) IN IF joined = <<>> THEN S_root ELSE joined

\* `[${i}]`
IndexSegment(i) == <<"[">> \o NatToString(i) \o <<"]">>

\* constructor: a comparer with empty logs
NewComparer(registry, clock) ==
    [registry |-> registry, errors |-> <<>>, details |-> <<>>, currentDepth |-> 0, maxDepthReached |-> 0,
     threw |-> FALSE, clock |-> clock,
     calls |-> <<>>, lookups |-> <<>>, caught |-> <<>>, trials |-> <<>>]

addError(st, path, type, expected, actual, message) ==
    [st EXCEPT !.errors = Append(@, [path |-> PathString(path), type |-> type,
                                      expected |-> expected, actual |-> actual,
                                      message |-> message])]

addDetail(st, path, passed, expected, actual, message) ==
    [st EXCEPT !.details = Append(@, [path |-> PathString(path), passed |-> passed,
                                       expected |-> expected, actual |-> actual,
                                       message |-> message])]

\* a faulty variant of IgnorePathMatches: "*" is an ordinary segment
IgnorePathMatches_literalStar(segments, currentPath) ==
    /\ Len(segments) <= Len(currentPath)
    /\ \A i \in 1..Len(segments) : segments[i] = currentPath[i]

\* one ignore-path against the current path: the inner loop of shouldIgnorePath
IgnorePathMatches(segments, currentPath) ==
    /\ Len(segments) <= Len(currentPath)
    /\ \A i \in 1..Len(segments) : segments[i] = <<"*">> \/ segments[i] = currentPath[i]

\* shouldIgnorePath: the first configured ignore-path that matches, if any
shouldIgnorePath(currentPath, ignorePaths) ==
    IF \E k \in 1..Len(ignorePaths) : IgnorePathMatches(ignorePaths[k].path, currentPath)
    THEN [found |-> TRUE,
          config |-> ignorePaths[CHOOSE k \in 1..Len(ignorePaths) :
                         /\ IgnorePathMatches(ignorePaths[k].path, currentPath)
                         /\ \A j \in 1..(k - 1) :
                               ~IgnorePathMatches(ignorePaths[j].path, currentPath)]]
    ELSE [found |-> FALSE]

S_no_reason == <<"n", "o", " ", "r", "e", "a", "s", "o", "n">>

\* `Ignored by ignorePath: ${matched.doc?.join(', ') ?? 'no reason'}`
IgnoredMessage(config) ==
    Msg("Ignored by ignorePath: %s",
        << IF "doc" \in DOMAIN config THEN Join(config.doc, <<",", " ">>) ELSE S_no_reason >>)

\* comparePrimitives
comparePrimitives(st, expected, actual, path) ==
    IF expected = actual
    THEN addDetail(st, path, TRUE, expected, actual, NoMsg)
    ELSE addError(st, path, "VALUE_MISMATCH", expected, actual, Msg("Value mismatch", <<>>))

\* a faulty variant of the catch block: the exception is not caught
DirectiveCatch_rethrow(st, expectedDirective, actual, path, error) ==
    [st EXCEPT !.threw = TRUE]

\* the catch block of compareWithDirective
DirectiveCatch(st, expectedDirective, actual, path, error) ==
    [addError(st, path, "DIRECTIVE_ERROR", Str(expectedDirective), actual,
              [fmt |-> "Directive error: %s", args |-> <<>>, cause |-> error])
       EXCEPT !.caught = Append(@, path)]

\* compareWithDirective
compareWithDirective(st, expectedDirective, actual, path, cx) ==
    Let(parse(expectedDirective), LAMBDA parsed :
    IF parsed.threw THEN DirectiveCatch(st, expectedDirective, actual, path, parsed.error)
    ELSE
    Let(getDirective(st.registry, parsed.action), LAMBDA looked :
    Let([st EXCEPT !.lookups = Append(@, parsed.action)], LAMBDA s1 :
    IF looked.threw THEN DirectiveCatch(s1, expectedDirective, actual, path, looked.error)
    ELSE
    Let(createMatcher(looked.directive, parsed), LAMBDA created :
    IF created.threw THEN DirectiveCatch(s1, expectedDirective, actual, path, created.error)
    ELSE
    Let(Match(created.m, actual, cx.context, st.clock), LAMBDA result :
    Let([s1 EXCEPT !.clock = PlusSecMs(@, 0, cx.tick)], LAMBDA s2 :
    IF result.threw THEN DirectiveCatch(s2, expectedDirective, actual, path, result.error)
    ELSE IF result.success
    THEN addDetail(s2, path, TRUE, Str(expectedDirective), actual, result.details)
    ELSE addError(s2, path, "PATTERN_MISMATCH", Str(expectedDirective), actual,
                  IF result.error = NoMsg THEN Msg("Directive match failed", <<>>)
                  ELSE result.error)))))))

RECURSIVE compareInternal(_, _, _, _, _)
RECURSIVE compareObjects(_, _, _, _, _)
RECURSIVE compareArrays(_, _, _, _, _)
RECURSIVE compare(_, _, _, _, _)

\* compareObjects, first loop: the expected keys from position i on
RECURSIVE expectedKeysLoop(_, _, _, _, _, _)
expectedKeysLoop(st, i, expected, actual, path, cx) ==
    IF st.threw \/ i > Len(expected.o) THEN st
    ELSE LET key == expected.o[i].k
             expectedValue == expected.o[i].v
             newPath == Append(path, key)
         IN IF key = KW_EXACT
            THEN expectedKeysLoop(st, i + 1, expected, actual, path, cx)
            ELSE IF ~HasKey(actual, key)
            THEN expectedKeysLoop(
                     addError(st, newPath, "MISSING_PROPERTY", expectedValue, Undefined,
                              Msg("Property '%s' missing in actual object", <<key>>)),
                     i + 1, expected, actual, path, cx)
            ELSE expectedKeysLoop(
                     compareInternal(st, expectedValue, GetProp(actual, key), newPath, cx),
                     i + 1, expected, actual, path, cx)

\* compareObjects, second loop: the actual keys from position i on
RECURSIVE extraKeysLoop(_, _, _, _, _)
extraKeysLoop(st, i, expected, actual, path) ==
    IF i > Len(actual.o) THEN st
    ELSE LET key == actual.o[i].k IN
         extraKeysLoop(
             IF ~HasKey(expected, key)
             THEN addError(st, Append(path, key), "EXTRA_PROPERTY", Undefined, actual.o[i].v,
                           Msg("Extra property '%s' in actual object", <<key>>))
             ELSE st,
             i + 1, expected, actual, path)

compareObjects(st, expected, actual, path, cx) ==
    IF actual.t # "object"
    THEN addError(st, path, "TYPE_MISMATCH", Str(S_object), Str(typeof(actual)),
                  Msg("Expected object", <<>>))
    ELSE Let(\/ GetProp(expected, KW_EXACT) = Bool(TRUE)
             \/ Field(cx.options, "strictMode") = Bool(TRUE), LAMBDA isExactMode :
         Let(expectedKeysLoop(st, 1, expected, actual, path, cx), LAMBDA s1 :
             IF s1.threw THEN s1
             ELSE IF isExactMode \/ ~Truthy(Field(cx.options, "ignoreExtraProperties"))
             THEN extraKeysLoop(s1, 1, expected, actual, path)
             ELSE s1))

\* compareArraysOrdered: the element loop from index i (0-based) on
RECURSIVE orderedLoop(_, _, _, _, _, _)
orderedLoop(st, i, expected, actual, path, cx) ==
    LET minLength == IF Len(expected) < Len(actual) THEN Len(expected) ELSE Len(actual)
        itemPath == Append(path, IndexSegment(i))
    IN IF st.threw \/ i >= minLength THEN st
       ELSE IF expected[i + 1] = Str(KW_IGNORE)
       THEN orderedLoop(
                addDetail(st, itemPath, TRUE, expected[i + 1], actual[i + 1],
                          Msg("Ignored by directive", <<>>)),
                i + 1, expected, actual, path, cx)
       ELSE orderedLoop(
                compareInternal(st, expected[i + 1], actual[i + 1], itemPath, cx),
                i + 1, expected, actual, path, cx)

LengthMismatch(st, expected, actual, path) ==
    addError(st, path, "ARRAY_LENGTH_MISMATCH", Num(Len(expected)), Num(Len(actual)),
             Msg("Array length mismatch: expected %s, got %s",
                 <<NatToString(Len(expected)), NatToString(Len(actual))>>))

\* a faulty variant of compareArraysOrdered: a length mismatch ends the check
compareArraysOrdered_abortOnLength(st, expected, actual, path, cx) ==
    IF Len(expected) # Len(actual)
    THEN LengthMismatch(st, expected, actual, path)
    ELSE orderedLoop(st, 0, expected, actual, path, cx)

\* compareArraysOrdered
compareArraysOrdered(st, expected, actual, path, cx) ==
    orderedLoop(IF Len(expected) # Len(actual)
                THEN LengthMismatch(st, expected, actual, path) ELSE st,
                0, expected, actual, path, cx)

\* a faulty variant of testMatch: the trial writes into the caller's logs
testMatch_sharingLogs(st, expected, actual, cx, at) ==
    Let(compareInternal([st EXCEPT !.currentDepth = 0], expected, actual, <<>>, cx), LAMBDA temp :
        [st |-> [temp EXCEPT !.currentDepth = st.currentDepth,
                             !.trials = Append(@, [at |-> at,
                                                   errors |-> SubSeq(temp.errors, Len(st.errors) + 1, Len(temp.errors)),
                                                   details |-> <<>>, calls |-> <<>>, caught |-> <<>>,
                                                   lookups |-> <<>>, trials |-> <<>>,
                                                   currentDepth |-> 0,
                                                   maxDepthReached |-> temp.maxDepthReached])],
         matched |-> ~temp.threw /\ Len(temp.errors) = Len(st.errors)])

\* testMatch: a temporary comparer, whose clock goes on from the caller's.
\* Returns the caller's comparer with the trial recorded and the verdict;
\* at says for which element pair the caller asks.
testMatch(st, expected, actual, cx, at) ==
    Let(compare(NewComparer(st.registry, st.clock), expected, actual, <<>>, cx), LAMBDA temp :
        [st |-> [st EXCEPT !.clock = temp.clock,
                           !.threw = temp.threw,
                           !.trials = Append(@, [at |-> at,
                                                 errors |-> temp.errors,
                                                 details |-> temp.details,
                                                 calls |-> temp.calls,
                                                 caught |-> temp.caught,
                                                 lookups |-> temp.lookups,
                                                 trials |-> temp.trials,
                                                 currentDepth |-> temp.currentDepth,
                                                 maxDepthReached |-> temp.maxDepthReached])],
         matched |-> ~temp.threw /\ Len(temp.errors) = 0])

\* a faulty variant of findMatch: an actual element may be matched twice
RECURSIVE findMatch_reusingElements(_, _, _, _, _, _, _, _)
findMatch_reusingElements(st, i, j, expected, actual, matchedActualIndices, path, cx) ==
    IF st.threw \/ j >= Len(actual) THEN [st |-> st, found |-> -1]
    ELSE Let(testMatch(st, expected[i + 1], actual[j + 1], cx,
                       [path |-> Append(path, IndexSegment(i)), i |-> i, j |-> j]), LAMBDA t :
             IF t.matched THEN [st |-> t.st, found |-> j]
             ELSE findMatch_reusingElements(t.st, i, j + 1, expected, actual,
                                            matchedActualIndices, path, cx))

\* compareArraysUnordered, inner loop: the first unmatched actual index from j
\* (0-based) on that passes testMatch for expected[i]; found = -1 if none
RECURSIVE findMatch(_, _, _, _, _, _, _, _)
findMatch(st, i, j, expected, actual, matchedActualIndices, path, cx) ==
    IF st.threw \/ j >= Len(actual) THEN [st |-> st, found |-> -1]
    ELSE IF j \in matchedActualIndices
    THEN findMatch(st, i, j + 1, expected, actual, matchedActualIndices, path, cx)
    ELSE Let(testMatch(st, expected[i + 1], actual[j + 1], cx,
                       [path |-> Append(path, IndexSegment(i)), i |-> i, j |-> j]), LAMBDA t :
             IF t.matched THEN [st |-> t.st, found |-> j]
             ELSE findMatch(t.st, i, j + 1, expected, actual, matchedActualIndices, path, cx))

\* compareArraysUnordered, outer loop from expected index i (0-based) on
RECURSIVE unorderedLoop(_, _, _, _, _, _, _)
unorderedLoop(st, i, expected, actual, matchedActualIndices, path, cx) ==
    IF st.threw \/ i >= Len(expected) THEN st
    ELSE Let(findMatch(st, i, 0, expected, actual, matchedActualIndices, path, cx), LAMBDA m :
         Let(Append(path, IndexSegment(i)), LAMBDA itemPath :
             IF m.st.threw THEN m.st
             ELSE IF m.found >= 0
             THEN unorderedLoop(
                      addDetail(m.st, itemPath, TRUE, expected[i + 1], actual[m.found + 1],
                                Msg("Matched in unordered array", <<>>)),
                      i + 1, expected, actual, matchedActualIndices \cup {m.found}, path, cx)
             ELSE unorderedLoop(
                      addError(m.st, itemPath, "ARRAY_ELEMENT_MISMATCH", expected[i + 1],
                               Undefined, Msg("No matching element found in actual array", <<>>)),
                      i + 1, expected, actual, matchedActualIndices, path, cx)))

\* compareArraysUnordered
compareArraysUnordered(st, expected, actual, path, cx) ==
    IF Len(expected) # Len(actual)
    THEN LengthMismatch(st, expected, actual, path)
    ELSE unorderedLoop(st, 0, expected, actual, {}, path, cx)

\* compareArraysPartial: the element loop from index i (0-based) on
RECURSIVE partialLoop(_, _, _, _, _, _)
partialLoop(st, i, expected, actual, path, cx) ==
    IF st.threw \/ i >= Len(expected) THEN st
    ELSE partialLoop(
             compareInternal(st, expected[i + 1], actual[i + 1],
                             Append(path, IndexSegment(i)), cx),
             i + 1, expected, actual, path, cx)

\* a faulty variant of compareArraysPartial: the surplus of actual is a
\* length mismatch, as in the ordered mode
compareArraysPartial_asOrdered(st, expected, actual, path, cx) ==
    compareArraysOrdered(st, expected, actual, path, cx)

\* compareArraysPartial
compareArraysPartial(st, expected, actual, path, cx) ==
    IF Len(actual) < Len(expected)
    THEN addError(st, path, "ARRAY_LENGTH_MISMATCH",
                  Str(<<"a", "t", " ", "l", "e", "a", "s", "t", " ">> \o NatToString(Len(expected))),
                  Num(Len(actual)),
                  Msg("Array too short: expected at least %s elements, got %s",
                      <<NatToString(Len(expected)), NatToString(Len(actual))>>))
    ELSE partialLoop(st, 0, expected, actual, path, cx)

IsMarker(item) == item = Str(KW_IGNORE_ORDER) \/ item = Str(KW_IGNORE_REST)

IsNotMarker(item) == ~IsMarker(item)

\* a faulty variant of compareArrays: ignoreRest is tested before ignoreOrder
compareArrays_restFirst(st, expected, actual, path, cx) ==
    IF ~IsArray(actual)
    THEN addError(st, path, "TYPE_MISMATCH", Str(S_array), Str(typeof(actual)),
                  Msg("Expected array", <<>>))
    ELSE LET hasIgnoreOrder == \E i \in 1..Len(expected.a) : expected.a[i] = Str(KW_IGNORE_ORDER)
             hasIgnoreRest == \E i \in 1..Len(expected.a) : expected.a[i] = Str(KW_IGNORE_REST)
             filteredExpected == SelectSeq(expected.a, IsNotMarker)
         IN IF hasIgnoreRest
            THEN compareArraysPartial(st, filteredExpected, actual.a, path, cx)
            ELSE IF hasIgnoreOrder
            THEN compareArraysUnordered(st, filteredExpected, actual.a, path, cx)
            ELSE compareArraysOrdered(st, filteredExpected, actual.a, path, cx)

\* compareArrays
compareArrays(st, expected, actual, path, cx) ==
    IF ~IsArray(actual)
    THEN addError(st, path, "TYPE_MISMATCH", Str(S_array), Str(typeof(actual)),
                  Msg("Expected array", <<>>))
    ELSE LET hasIgnoreOrder == \E i \in 1..Len(expected.a) : expected.a[i] = Str(KW_IGNORE_ORDER)
             hasIgnoreRest == \E i \in 1..Len(expected.a) : expected.a[i] = Str(KW_IGNORE_REST)
             filteredExpected == SelectSeq(expected.a, IsNotMarker)
         IN IF hasIgnoreOrder
            THEN compareArraysUnordered(st, filteredExpected, actual.a, path, cx)
            ELSE IF hasIgnoreRest
            THEN compareArraysPartial(st, filteredExpected, actual.a, path, cx)
            ELSE compareArraysOrdered(st, filteredExpected, actual.a, path, cx)

\* a faulty variant of Branch: the ignore keyword is not recognised before
\* directive parsing
Branch_withoutIgnoreKeyword(st, expected, path, cx) ==
    IF Truthy(Field(cx.options, "maxDepth")) /\ st.currentDepth > cx.options.maxDepth.n
    THEN "maxDepth"
    ELSE IF Truthy(Field(cx.options, "maxErrors")) /\ Len(st.errors) >= cx.options.maxErrors.n
    THEN "maxErrors"
    ELSE IF /\ "ignorePaths" \in DOMAIN cx.options
            /\ Len(cx.options.ignorePaths) > 0
            /\ shouldIgnorePath(path, cx.options.ignorePaths).found
    THEN "ignorePath"
    ELSE IF expected.t \in {"null", "undefined"} THEN "null"
    ELSE IF expected.t = "string" /\ isDirective(expected.s) THEN "directive"
    ELSE IF IsArray(expected) THEN "array"
    ELSE IF expected.t = "object" THEN "object"
    ELSE "primitive"

\* the branch compareInternal takes for a node, given the comparer on entry
\* (after the depth increment)
Branch(st, expected, path, cx) ==
    IF Truthy(Field(cx.options, "maxDepth")) /\ st.currentDepth > cx.options.maxDepth.n
    THEN "maxDepth"
    ELSE IF Truthy(Field(cx.options, "maxErrors")) /\ Len(st.errors) >= cx.options.maxErrors.n
    THEN "maxErrors"
    ELSE IF /\ "ignorePaths" \in DOMAIN cx.options
            /\ Len(cx.options.ignorePaths) > 0
            /\ shouldIgnorePath(path, cx.options.ignorePaths).found
    THEN "ignorePath"
    ELSE IF expected.t \in {"null", "undefined"} THEN "null"
    ELSE IF expected = Str(KW_IGNORE) THEN "ignore"
    ELSE IF expected.t = "string" /\ isDirective(expected.s) THEN "directive"
    ELSE IF IsArray(expected) THEN "array"
    ELSE IF expected.t = "object" THEN "object"
    ELSE "primitive"

\* a faulty variant of Leave: the counter is not decremented
Leave_withoutDecrement(st) == st

\* this.currentDepth--
Leave(st) == [st EXCEPT !.currentDepth = @ - 1]

\* compareInternal
compareInternal(st, expected, actual, path, cx) ==
    Let([st EXCEPT !.currentDepth = @ + 1,
                   !.maxDepthReached = IF st.currentDepth + 1 > @
                                       THEN st.currentDepth + 1 ELSE @], LAMBDA s0 :
    Let(Branch(s0, expected, path, cx), LAMBDA branch :
    Let([s0 EXCEPT !.calls = Append(@, [path |-> path, depth |-> s0.currentDepth,
                                        branch |-> branch,
                                        expected |-> expected, actual |-> actual])], LAMBDA s1 :
    Leave(
        CASE branch = "maxDepth" ->
                 addError(s1, path, "DIRECTIVE_ERROR", expected, actual,
                          Msg("Maximum depth %s exceeded",
                              <<IntToString(cx.options.maxDepth.n)>>))
          [] branch = "maxErrors" -> s1
          [] branch = "ignorePath" ->
                 addDetail(s1, path, TRUE, expected, actual,
                           IgnoredMessage(shouldIgnorePath(path, cx.options.ignorePaths).config))
          [] branch = "null" ->
                 IF expected # actual
                 THEN addError(s1, path, "VALUE_MISMATCH", expected, actual,
                               Msg("Value mismatch", <<>>))
                 ELSE addDetail(s1, path, TRUE, expected, actual, NoMsg)
          [] branch = "ignore" ->
                 addDetail(s1, path, TRUE, expected, actual, Msg("Ignored by directive", <<>>))
          [] branch = "directive" -> compareWithDirective(s1, expected.s, actual, path, cx)
          [] branch = "array" -> compareArrays(s1, expected, actual, path, cx)
          [] branch = "object" -> compareObjects(s1, expected, actual, path, cx)
          [] branch = "primitive" -> comparePrimitives(s1, expected, actual, path)))))

\* a faulty variant of compare: the logs are not reset
compare_withoutReset(st, expected, actual, path, cx) ==
    compareInternal(st, expected, actual, path, cx)

\* compare: reset the comparer, walk, return it (the caller reads errors,
\* details and maxDepthReached)
compare(st, expected, actual, path, cx) ==
    compareInternal([st EXCEPT !.errors = <<>>, !.details = <<>>,
                               !.currentDepth = 0, !.maxDepthReached = 0,
                               !.calls = <<>>, !.lookups = <<>>,
                               !.caught = <<>>, !.trials = <<>>],
                    expected, actual, path, cx)

(***************************************************************************)
(* CompareEngine                                                           *)
(***************************************************************************)

S_json == <<"j", "s", "o", "n">>

S_any_value == <<"a", "n", "y", " ", "v", "a", "l", "u", "e">>

\* { format: 'json', ignoreExtraProperties: true, ...options }
mergedOptions(options) ==
    [k \in {"format", "ignoreExtraProperties"} \cup DOMAIN options |->
        IF k \in DOMAIN options THEN options[k]
        ELSE IF k = "format" THEN Str(S_json)
        ELSE Bool(TRUE)]

IsPassed(d) == d.passed

\* a faulty variant of buildResult: success is read off the details
buildResult_successFromDetails(errors, details, startTime, endTime, maxDepthReached) ==
    [threw |-> FALSE,
     success |-> \A i \in 1..Len(details) : details[i].passed,
     errors |-> errors,
     details |-> details,
     stats |-> [totalChecks |-> Len(details) + Len(errors),
                passedChecks |-> Len(SelectSeq(details, IsPassed)),
                failedChecks |-> Len(errors),
                duration |-> Diff(endTime, startTime).sec * 1000 + Diff(endTime, startTime).ms,
                maxDepthReached |-> maxDepthReached]]

\* buildResult; startTime and endTime are the two readings of Date.now()
buildResult(errors, details, startTime, endTime, maxDepthReached) ==
    LET passedChecks == Len(SelectSeq(details, IsPassed))
        failedChecks == Len(errors)
        elapsed == Diff(endTime, startTime)
    IN [threw |-> FALSE,
        success |-> Len(errors) = 0,
        errors |-> errors,
        details |-> details,
        stats |-> [totalChecks |-> passedChecks + failedChecks,
                   passedChecks |-> passedChecks,
                   failedChecks |-> failedChecks,
                   duration |-> elapsed.sec * 1000 + elapsed.ms,
                   maxDepthReached |-> maxDepthReached]]

\* the request's parts, with the defaults of the destructuring
RequestContext(req) == IF "context" \in DOMAIN req THEN req.context ELSE << >>

RequestOptions(req) == IF "options" \in DOMAIN req THEN req.options ELSE << >>

\* compare, second half: a fresh RecursiveComparer walks the two trees.
\* Returns the result and the comparer as the walk left it.
runComparer(req, directives, now, tick) ==
    Let([context |-> RequestContext(req),
         options |-> mergedOptions(RequestOptions(req)), tick |-> tick], LAMBDA cx :
    Let(compare(NewComparer(directives, now), req.expected, req.actual, <<>>, cx),
        LAMBDA comparer :
        [result |-> IF comparer.threw THEN [threw |-> TRUE]
                    ELSE buildResult(comparer.errors, comparer.details, now, comparer.clock,
                                     Num(comparer.maxDepthReached)),
         walk |-> comparer]))

\* a faulty variant of compare: the input validation is missing
compare_withoutInputValidation(req, directives, now, tick) ==
    runComparer(req, directives, now, tick)

\* compare: the input validation, then the walk.  With actual undefined no
\* comparer is made: walk is then a comparer that never ran.
CompareEngine_compare(req, directives, now, tick) ==
    IF req.actual = Undefined
    THEN [result |-> buildResult(
                         << [path |-> S_root, type |-> "MISSING_PROPERTY",
                             expected |-> Str(S_any_value), actual |-> Undefined,
                             message |-> Msg("Actual value is undefined", <<>>)] >>,
                         <<>>, now, now, Undefined),
          walk |-> NewComparer(directives, now)]
    ELSE runComparer(req, directives, now, tick)

\* registerDirective: throws, leaving the map alone, when the name is taken
registerDirective(directives, directive) ==
    IF hasDirective(directives, directive.name)
    THEN [threw |-> TRUE, directives |-> directives]
    ELSE [threw |-> FALSE, directives |-> Append(directives, directive)]

(***************************************************************************)
(* The requests of the model                                               *)
(***************************************************************************)

\* the most custom directives a caller registers on one engine
MaxCustom == 1

\* the longest array of the array requests
MaxLen == 3

K_a == <<"a">>

K_b == <<"b">>

K_s == <<"s">>

K_x == <<"x">>

K_y == <<"y">>

K_constructor == <<"c", "o", "n", "s", "t", "r", "u", "c", "t", "o", "r">>

S_ab == <<"a", "b">>

\* directive strings: one that matches strings starting with "a", and one
\* for every way a directive can fail
D_startsWith_a == OPEN \o N_startsWith \o <<":", "a">> \o CLOSE

D_unknown == OPEN \o <<"b", "o", "g", "u", "s">> \o CLOSE

D_noAction == OPEN \o <<"|", "x">> \o CLOSE

D_noArgs == OPEN \o N_startsWith \o CLOSE

D_badRegex == OPEN \o N_regex \o <<":", "(">> \o CLOSE

D_untrimmed == <<" ">> \o OPEN \o N_regex \o <<":", "a">> \o CLOSE

D_badRange == OPEN \o N_number \o <<":", "r", "a", "n", "g", "e", ":", "5", ":", "1">> \o CLOSE

D_badUnit == OPEN \o N_time \o <<":", "r", "a", "n", "g", "e", ":", "5", ":", "p", "a", "r", "s", "e", "c", "s">> \o CLOSE

\* a time directive that is well formed: within 5 seconds of the base time
D_timeRange == OPEN \o N_time \o <<":", "r", "a", "n", "g", "e", ":", "-", "5", ":", "5", ":", "s", "e", "c", "o", "n", "d", "s">> \o CLOSE

N_boom == <<"b", "o", "o", "m">>

N_never == <<"n", "e", "v", "e", "r">>

D_boom == OPEN \o N_boom \o CLOSE

D_never == OPEN \o N_never \o CLOSE

\* the directives a caller may register: one whose predicate throws, one
\* whose createMatcher throws, one under the name of a built-in
CustomDirectives ==
    { CustomDirective(N_boom, "ok", "throw"), CustomDirective(N_never, "throw", "pass"),
      CustomDirective(N_regex, "ok", "pass") }

FailingDirectives ==
    { D_unknown, D_noAction, D_noArgs, D_badRegex, D_badRange, D_badUnit, D_untrimmed,
      D_boom, D_never, KW_EXACT }

\* a request without options, and one with
BareRequest(expected, actual) == [expected |-> expected, actual |-> actual]

Request(expected, actual, options) ==
    [expected |-> expected, actual |-> actual, options |-> options]

\* every request over the given trees and options, and the same without options
Requests(expecteds, actuals, optionss) ==
    {BareRequest(e, a) : e \in expecteds, a \in actuals}
        \cup {Request(e, a, o) : e \in expecteds, a \in actuals, o \in optionss}

(* General requests: leaves, two-key objects and two-element arrays in the  *)
(* three array modes, whose first child is a directive and whose second is  *)
(* its sibling.                                                             *)
GenDirectives == {Str(d) : d \in FailingDirectives \cup {D_startsWith_a, D_timeRange}}

GenLeaves == {Num(1), Null, Str(KW_IGNORE)} \cup GenDirectives

GenSiblings == {Num(1), Str(D_unknown)}

GenExpected ==
    GenLeaves
        \cup {Obj(<<Prop(K_a, x), Prop(K_b, y)>>) : x \in GenDirectives, y \in GenSiblings}
        \cup {Arr(<<x, y>>) : x \in GenDirectives, y \in GenSiblings}
        \cup {Arr(<<Str(m), x, y>>) : m \in {KW_IGNORE_ORDER, KW_IGNORE_REST},
                                      x \in GenDirectives, y \in GenSiblings}

GenActual ==
    { Undefined, Null, Num(1), Str(S_ab),
      Obj(<<Prop(K_a, Str(S_ab)), Prop(K_b, Num(1))>>),
      Obj(<<Prop(K_a, Str(S_ab)), Prop(K_b, Num(2))>>),
      Arr(<<Str(S_ab), Num(1)>>),
      Arr(<<Num(1), Str(S_ab)>>) }

GenOptions == { [maxErrors |-> Num(1)], [strictMode |-> Bool(TRUE)] }

GenRequests == Requests(GenExpected, GenActual, GenOptions)

(***************************************************************************)
(* The state machine: an engine, one request, and the call that serves it  *)
(***************************************************************************)

VARIABLES
    directives,   \* the engine's registry: its directives, in insertion order
    request,      \* the request handed to compare
    pc,           \* "ready" before compare is called, "done" once it returned
    result,       \* what compare returned
    walk,         \* the RecursiveComparer of the call, as the walk left it
    now,          \* the wall clock
    heap,         \* the arrays made by the calls: a reference is an index
    comparer,     \* the RecursiveComparer a caller made for itself, if any
    returned,     \* the objects the calls returned, in order
    comparers,    \* the comparers of the calls in flight: a reference is an index
    flight,       \* the calls in flight on the engine, in the order they started
    matchers,     \* the registry's matchers, in insertion order
    transforms,   \* the registry's transforms, in insertion order
    outcome,      \* what the last call on the registry did
    registrations, \* what the caller registered with success since the last clear
    text,         \* the string a caller hands to the parser
    answer        \* what the last call on the parser returned

\* what only a caller making several calls uses
registryCalls == <<matchers, transforms, outcome, registrations>>

parserCalls == <<text, answer>>

extension == <<heap, comparer, returned, comparers, flight, registryCalls, parserCalls>>

vars == <<directives, request, pc, result, walk, now, extension>>

NoOutcome == [op |-> "none"]

NoAnswer == [op |-> "none"]

NoRegistrations == [directive |-> <<>>, matcher |-> <<>>, transform |-> <<>>]

\* a caller that leaves the registry to the engine
NoRegistryCalls ==
    /\ matchers = <<>>
    /\ transforms = <<>>
    /\ outcome = NoOutcome
    /\ registrations = NoRegistrations
    /\ text = <<>>
    /\ answer = NoAnswer

\* the caller made no comparer of its own: it calls the engine
NoComparer == [none |-> TRUE]

\* a caller making one call on the engine
SingleCall ==
    /\ heap = <<>>
    /\ comparer = NoComparer
    /\ returned = <<>>
    /\ comparers = <<>>
    /\ flight = <<>>

\* no result yet
NoResult == [pending |-> TRUE]

\* 2024-10-04T00:00:00Z
StartOfRun == [d |-> DaysFromCivil(2024, 10, 4), ms |-> 0]

InitWith(requests) ==
    /\ directives = DefaultDirectives
    /\ request \in requests
    /\ pc = "ready"
    /\ result = NoResult
    /\ walk = NewComparer(DefaultDirectives, StartOfRun)
    /\ now = StartOfRun
    /\ SingleCall
    /\ NoRegistryCalls

Init == InitWith(GenRequests)

\* engine.getRegistry().registerDirective(d)
RegisterDirective(d) ==
    /\ Len(directives) < Len(DefaultDirectives) + MaxCustom
    /\ directives' = registerDirective(directives, d).directives
    /\ UNCHANGED <<request, pc, result, walk, now, extension>>

\* await engine.compare(request); one directive evaluation takes 1 ms
Compare ==
    /\ pc = "ready"
    /\ LET out == CompareEngine_compare(request, directives, now, 1) IN
          /\ result' = out.result
          /\ walk' = out.walk
          /\ now' = out.walk.clock
    /\ pc' = "done"
    /\ UNCHANGED <<directives, request, extension>>

Next ==
    \/ \E d \in CustomDirectives : RegisterDirective(d)
    \/ Compare

Spec == Init /\ [][Next]_vars

(***************************************************************************)
(* What a finished call left behind                                        *)
(***************************************************************************)

Done == pc = "done"

NumErrorsAt(pathString) ==
    Cardinality({k \in 1..Len(result.errors) : result.errors[k].path = pathString})

NumErrorsOfTypeAt(type, pathString) ==
    Cardinality({k \in 1..Len(result.errors) :
                    /\ result.errors[k].path = pathString
                    /\ result.errors[k].type = type})

NumDetailsAt(pathString) ==
    Cardinality({k \in 1..Len(result.details) : result.details[k].path = pathString})

\* calls of compareInternal made by the walk of the request (not by trials)
NumCallsAt(path) ==
    Cardinality({k \in 1..Len(walk.calls) : walk.calls[k].path = path})

\* evaluating the directive string on actual ends in an exception
DirectiveThrows(directive, actual, registry, context, clock) ==
    LET parsed == parse(directive)
        looked == getDirective(registry, parsed.action)
        created == createMatcher(looked.directive, parsed)
    IN \/ parsed.threw
       \/ looked.threw
       \/ created.threw
       \/ Match(created.m, actual, context, clock).threw

\* c, a call on a directive node, met a directive failure
IsDirectiveFailure(c) ==
    /\ c.branch = "directive"
    /\ DirectiveThrows(c.expected.s, c.actual, walk.registry, RequestContext(request),
                       walk.clock)

\* every expected key of the object node c was checked: visited, or reported
\* missing
ObjectChildrenChecked(c) ==
    \A i \in 1..Len(c.expected.o) :
        LET key == c.expected.o[i].k
            childPath == Append(c.path, key)
        IN key # KW_EXACT =>
              \/ NumCallsAt(childPath) = 1
              \/ NumErrorsOfTypeAt("MISSING_PROPERTY", PathString(childPath)) = 1

\* every element of the array node c that its mode covers was checked
ArrayChildrenChecked(c) ==
    LET e == SelectSeq(c.expected.a, IsNotMarker)
        a == c.actual.a
        unordered == \E i \in 1..Len(c.expected.a) : c.expected.a[i] = Str(KW_IGNORE_ORDER)
        partial == \E i \in 1..Len(c.expected.a) : c.expected.a[i] = Str(KW_IGNORE_REST)
        At(i) == Append(c.path, IndexSegment(i))
    IN IF unordered
       THEN Len(e) = Len(a) =>
               \A i \in 0..(Len(e) - 1) :
                   NumDetailsAt(PathString(At(i))) + NumErrorsAt(PathString(At(i))) = 1
       ELSE IF partial
       THEN Len(a) >= Len(e) => \A i \in 0..(Len(e) - 1) : NumCallsAt(At(i)) = 1
       ELSE \A i \in 0..(Len(e) - 1) :
               i < Len(a) =>
                  \/ NumCallsAt(At(i)) = 1
                  \/ e[i + 1] = Str(KW_IGNORE) /\ NumDetailsAt(PathString(At(i))) = 1

\* no child of a node the walk compared was left out
ChildrenChecked ==
    \A k \in 1..Len(walk.calls) :
        LET c == walk.calls[k] IN
        /\ (c.branch = "object" /\ c.actual.t = "object") => ObjectChildrenChecked(c)
        /\ (c.branch = "array" /\ IsArray(c.actual)) => ArrayChildrenChecked(c)

LeafBranches == {"null", "ignore", "directive", "primitive", "ignorePath"}

\* every leaf the walk visited within its budgets left one error or one detail
LeavesReportedWithinBudget ==
    \A k \in 1..Len(walk.calls) :
        LET c == walk.calls[k] IN
        c.branch \in LeafBranches =>
            NumDetailsAt(PathString(c.path)) + NumErrorsAt(PathString(c.path)) = 1

\* every leaf the walk visited left one error or one detail
LeavesReported ==
    \A k \in 1..Len(walk.calls) :
        LET c == walk.calls[k] IN
        c.expected.t \notin {"array", "object"} =>
            NumDetailsAt(PathString(c.path)) + NumErrorsAt(PathString(c.path)) = 1

(***************************************************************************)
(* C1                                                                      *)
(***************************************************************************)

C2_StatsFollowTheLogs ==
    Done =>
        /\ ~result.threw
        /\ result.success = (Len(result.errors) = 0)
        /\ result.stats.failedChecks = Len(result.errors)
        /\ result.stats.passedChecks =
              Cardinality({k \in 1..Len(result.details) : result.details[k].passed = TRUE})
        /\ result.stats.totalChecks = result.stats.passedChecks + result.stats.failedChecks

\* a result with errors and details
C2_Witness ==
    /\ Done
    /\ ~result.threw
    /\ Len(result.errors) > 0
    /\ Len(result.details) > 0
    /\ ~result.success

(***************************************************************************)
(* C3                                                                      *)
(***************************************************************************)

\* C3 (as stated): for every actual value at the top level of the request,
\* expected = "{{compare:ignore}}" succeeds with no errors.
C3_AsStated ==
    (Done /\ request.expected = Str(KW_IGNORE)) =>
        /\ ~result.threw
        /\ result.success
        /\ result.errors = <<>>

\* C3 (as amended): for every actual value other than undefined, of any
\* type, expected = "{{compare:ignore}}" at the top level succeeds with no
\* errors and one passing detail at "root".
C3_IgnoreNeutrality ==
    (Done /\ request.expected = Str(KW_IGNORE) /\ request.actual # Undefined) =>
        /\ ~result.threw
        /\ result.success
        /\ result.errors = <<>>
        /\ Len(result.details) = 1
        /\ result.details[1].path = S_root
        /\ result.details[1].passed

\* the ignore keyword against an object
C3_Witness ==
    /\ Done
    /\ request.expected = Str(KW_IGNORE)
    /\ request.actual.t = "object"
    /\ result.success

(***************************************************************************)
(* C4                                                                      *)
(***************************************************************************)

\* C4: when actual is undefined, the result has exactly one error, of type
\* MISSING_PROPERTY at path "root", no details and success = false, whatever
\* expected is; no comparer walks the trees and no directive is looked up.
C4_UndefinedActual ==
    (Done /\ request.actual = Undefined) =>
        /\ ~result.threw
        /\ Len(result.errors) = 1
        /\ result.errors[1].type = "MISSING_PROPERTY"
        /\ result.errors[1].path = S_root
        /\ result.details = <<>>
        /\ result.success = FALSE
        /\ walk.calls = <<>>
        /\ walk.lookups = <<>>
        /\ walk.trials = <<>>
        /\ result.stats.maxDepthReached = Undefined

\* actual undefined against a directive that would have needed a lookup
C4_Witness ==
    /\ Done
    /\ request.actual = Undefined
    /\ request.expected = Str(D_startsWith_a)
    /\ Len(result.errors) = 1

(***************************************************************************)
(* Object requests: mappings over the keys a, b and constructor, the last  *)
(* a name every object also inherits; the expected one with or without the *)
(* exact marker.                                                           *)
(***************************************************************************)

\* no property, or the property k with one of the values
OptProp(k, values) == {<<>>} \cup {<<Prop(k, v)>> : v \in values}

ObjExpected ==
    {Obj(m \o a \o b \o c) :
        m \in OptProp(KW_EXACT, {Bool(TRUE)}),
        a \in OptProp(K_a, {Num(1), Str(KW_IGNORE), Str(D_startsWith_a),
                            Obj(<<Prop(K_b, Num(1))>>)}),
        b \in OptProp(K_b, {Num(1)}),
        c \in OptProp(K_constructor, {Num(1)})}

ObjActual ==
    {Obj(a \o b \o c) :
        a \in OptProp(K_a, {Num(1), Num(2), Str(S_ab), Obj(<<Prop(K_b, Num(1))>>),
                            Obj(<<Prop(K_b, Num(1)), Prop(K_a, Num(2))>>)}),
        b \in OptProp(K_b, {Num(1), Num(2)}),
        c \in OptProp(K_constructor, {Num(1)})}

ObjOptions == { [strictMode |-> Bool(TRUE)], [ignoreExtraProperties |-> Bool(FALSE)] }

ObjRequests == Requests(ObjExpected, ObjActual, ObjOptions)

InitObjects == InitWith(ObjRequests)

SpecObjects == InitObjects /\ [][Next]_vars

\* the options the walk of the request ran under
WalkOptions == mergedOptions(RequestOptions(request))

\* the environment of the walk of the request
WalkEnv == [context |-> RequestContext(request), options |-> WalkOptions, tick |-> 1]

\* comparing e with a under the request's options reports no error
Matching(e, a) ==
    Len(compare(NewComparer(walk.registry, now), e, a, <<>>, WalkEnv).errors) = 0

\* the keys of a mapping other than the exact marker
DataKeys(obj) == {obj.o[i].k : i \in 1..Len(obj.o)} \ {KW_EXACT}

\* every key of E is a key of A, with a matching value
KeySubset(E, A) ==
    \A key \in DataKeys(E) : HasOwn(A, key) /\ Matching(GetProp(E, key), GetProp(A, key))

\* the request asks for exact mode, by marker or by option
ExactMode(E) ==
    \/ HasOwn(E, KW_EXACT) /\ GetProp(E, KW_EXACT) = Bool(TRUE)
    \/ Field(RequestOptions(request), "strictMode") = Bool(TRUE)

(***************************************************************************)
(* C5                                                                      *)
(***************************************************************************)

\* C5 (as stated): for mappings E and A where every key of E is in A with a
\* matching value, the comparison succeeds under default options; in exact
\* mode, or with ignoreExtraProperties false, the errors are exactly one
\* EXTRA_PROPERTY for each key of A that is not in E.
C5_AsStated ==
    (/\ Done
     /\ request.expected.t = "object"
     /\ request.actual.t = "object"
     /\ KeySubset(request.expected, request.actual)) =>
        LET E == request.expected
            A == request.actual
            surplus == DataKeys(A) \ DataKeys(E)
        IN /\ ~result.threw
           /\ ("options" \notin DOMAIN request /\ ~ExactMode(E)) => result.success
           /\ (\/ ExactMode(E)
               \/ Field(RequestOptions(request), "ignoreExtraProperties") = Bool(FALSE)) =>
                 /\ \A key \in surplus : NumErrorsOfTypeAt("EXTRA_PROPERTY", key) = 1
                 /\ Len(result.errors) = Cardinality(surplus)

\* the same statement for mappings none of whose keys is a name that
\* objects inherit
C5_ForOrdinaryKeys ==
    (/\ Done
     /\ request.expected.t = "object"
     /\ request.actual.t = "object"
     /\ DataKeys(request.expected) \cap ObjectPrototypeKeys = {}
     /\ DataKeys(request.actual) \cap ObjectPrototypeKeys = {}) => C5_AsStated

(***************************************************************************)
(* C6                                                                      *)
(***************************************************************************)

\* C6 (as stated): in every object comparison, each expected key other than
\* the exact marker is checked: a key absent from actual yields exactly one
\* MISSING_PROPERTY at path+key, the only thing recorded there, with no
\* descent; a present key is compared recursively on the two values.
C6_AsStated ==
    Done =>
        /\ ~result.threw
        /\ \A k \in 1..Len(walk.calls) :
              LET c == walk.calls[k] IN
              (c.branch = "object" /\ c.actual.t = "object") =>
                  \A key \in DataKeys(c.expected) :
                      LET childPath == Append(c.path, key) IN
                      IF ~HasOwn(c.actual, key)
                      THEN /\ NumErrorsOfTypeAt("MISSING_PROPERTY", PathString(childPath)) = 1
                           /\ NumErrorsAt(PathString(childPath)) = 1
                           /\ NumDetailsAt(PathString(childPath)) = 0
                           /\ NumCallsAt(childPath) = 0
                      ELSE \E n \in 1..Len(walk.calls) :
                              /\ walk.calls[n].path = childPath
                              /\ walk.calls[n].expected = GetProp(c.expected, key)
                              /\ walk.calls[n].actual = GetProp(c.actual, key)

\* the same statement for expected mappings none of whose keys is a name
\* that objects inherit
C6_ForOrdinaryKeys ==
    (/\ Done
     /\ request.expected.t = "object"
     /\ DataKeys(request.expected) \cap ObjectPrototypeKeys = {}) => C6_AsStated

(***************************************************************************)
(* Requests with ignore-paths: a mapping with the keys a and s, where s is *)
(* a scalar, a mapping or an array, under ignore-paths that name s, its    *)
(* children by key, by index or by wildcard, with and without doc strings. *)
(***************************************************************************)

STAR == <<"*">>

S_why == <<"w", "h", "y">>

S_flaky == <<"f", "l", "a", "k", "y">>

IgnExpected ==
    {Obj(<<Prop(K_a, Num(1))>> \o sub) :
        sub \in OptProp(K_s, {Num(2),
                              Obj(<<Prop(K_x, Num(1)), Prop(K_y, Num(2))>>),
                              Arr(<<Num(1), Num(2)>>)})}

IgnActual ==
    {Obj(<<Prop(K_a, v)>> \o sub) :
        v \in {Num(1), Num(9)},
        sub \in OptProp(K_s, {Num(2), Num(3),
                              Obj(<<Prop(K_x, Num(1)), Prop(K_y, Num(3))>>),
                              Obj(<<Prop(K_x, Num(9))>>),
                              Arr(<<Num(1), Num(3)>>),
                              Arr(<<Num(9)>>)})}

IgnorePathLists ==
    { << >>,
      << [path |-> <<K_s>>, doc |-> <<S_why>>] >>,
      << [path |-> <<K_s, STAR>>] >>,
      << [path |-> <<K_s, K_y>>, doc |-> <<S_why, S_flaky>>], [path |-> <<K_s>>, doc |-> <<>>] >>,
      << [path |-> <<STAR>>, doc |-> <<S_flaky>>] >>,
      << [path |-> <<K_s, IndexSegment(1)>>, doc |-> <<S_why>>] >> }

IgnOptions ==
    {[ignorePaths |-> l] : l \in IgnorePathLists}
        \cup {[ignorePaths |-> l, strictMode |-> Bool(TRUE)] : l \in IgnorePathLists}
        \cup {[ignorePaths |-> l, maxErrors |-> Num(1)] : l \in IgnorePathLists}

IgnRequests == Requests(IgnExpected, IgnActual, IgnOptions)

InitIgnorePaths == InitWith(IgnRequests)

SpecIgnorePaths == InitIgnorePaths /\ [][Next]_vars

\* the ignore-paths of the request
ConfiguredIgnorePaths ==
    IF "ignorePaths" \in DOMAIN RequestOptions(request)
    THEN request.options.ignorePaths ELSE << >>

\* ignorePath is a segment-wise prefix of path, "*" standing for any one
\* segment
IsPrefixOf(ignorePath, path) ==
    /\ Len(ignorePath) <= Len(path)
    /\ \A i \in 1..Len(ignorePath) : ignorePath[i] \in {STAR, path[i]}

\* the positions of the configured ignore-paths that are prefixes of path
IgnoredBy(path) ==
    {k \in 1..Len(ConfiguredIgnorePaths) : IsPrefixOf(ConfiguredIgnorePaths[k].path, path)}

\* the first of them
FirstIgnoredBy(path) ==
    ConfiguredIgnorePaths[CHOOSE k \in IgnoredBy(path) : \A j \in IgnoredBy(path) : k <= j]

\* the doc strings of an ignore-path, joined, or "no reason"
DocText(config) ==
    IF "doc" \in DOMAIN config THEN Join(config.doc, <<",", " ">>) ELSE S_no_reason

\* the segments of a reported path
Segments(pathString) == IF pathString = S_root THEN << >> ELSE Split(pathString, ".")

\* path lies beneath the path above
Beneath(path, above) ==
    Len(path) > Len(above) /\ SubSeq(path, 1, Len(above)) = above

(***************************************************************************)
(* C7                                                                      *)
(***************************************************************************)

C8_AsStated ==
    Done =>
        /\ ~result.threw
        /\ \A n \in 1..Len(result.errors) : IgnoredBy(Segments(result.errors[n].path)) = {}

(***************************************************************************)
(* Array requests: every array of the scalars 1 and 2 up to MaxLen, some   *)
(* more with a third number and a string, expected ones with and without   *)
(* the ignoreOrder marker, with the ignore keyword, and nested ones.       *)
(***************************************************************************)

SeqsUpTo(S, n) == UNION {[1..k -> S] : k \in 0..n}

ScalarArrays ==
    SeqsUpTo({Num(1), Num(2)}, MaxLen)
        \cup { <<Num(1), Num(2), Num(3)>>, <<Num(3), Num(2), Num(1)>>,
               <<Str(<<"1">>), Num(1)>> }

ArrExpected ==
    {Arr(items) : items \in ScalarArrays}
        \cup {Arr(<<Str(KW_IGNORE_ORDER)>> \o items) : items \in ScalarArrays}
        \cup { Arr(<<Num(1), Num(2), Str(KW_IGNORE_ORDER)>>),
               Arr(<<Str(KW_IGNORE)>>),
               Arr(<<Str(KW_IGNORE), Num(2)>>),
               Arr(<<Num(1), Str(KW_IGNORE), Num(1)>>),
               Arr(<<Arr(<<Num(1), Num(2)>>), Num(1)>>) }

ArrActual ==
    {Arr(items) : items \in ScalarArrays}
        \cup { Arr(<<Arr(<<Num(1)>>), Num(1)>>),
               Arr(<<Arr(<<Num(1), Num(2)>>), Num(2)>>),
               Arr(<<Obj(<<Prop(K_a, Num(1))>>), Num(2), Num(1)>>) }

ArrRequests == Requests(ArrExpected, ArrActual, { [maxErrors |-> Num(1)] })

InitArrays == InitWith(ArrRequests)

SpecArrays == InitArrays /\ [][Next]_vars

Min(m, n) == IF m < n THEN m ELSE n

(***************************************************************************)
(* C9                                                                      *)
(***************************************************************************)

\* C9: in every array comparison without a marker, a length difference
\* records exactly one ARRAY_LENGTH_MISMATCH at the array's path (equal
\* lengths record none) and the comparison goes on: every index i below the
\* smaller length is compared at path [i], once, on expected[i] and
\* actual[i], except that an expected element equal to the ignore keyword
\* yields one passing detail there without any comparison of the actual
\* element; no index beyond is compared.  [1,2,3] against [1,2] yields
\* exactly one error.
C9_OrderedArrays ==
    Done =>
        /\ ~result.threw
        /\ \A k \in 1..Len(walk.calls) :
              LET c == walk.calls[k] IN
              (/\ c.branch = "array"
               /\ IsArray(c.actual)
               /\ \A i \in 1..Len(c.expected.a) : ~IsMarker(c.expected.a[i])) =>
                  LET e == c.expected.a
                      a == c.actual.a
                      At(i) == Append(c.path, IndexSegment(i))
                  IN /\ NumErrorsOfTypeAt("ARRAY_LENGTH_MISMATCH", PathString(c.path)) =
                           (IF Len(e) # Len(a) THEN 1 ELSE 0)
                     /\ \A i \in 0..(Min(Len(e), Len(a)) - 1) :
                           IF e[i + 1] = Str(KW_IGNORE)
                           THEN /\ NumCallsAt(At(i)) = 0
                                /\ NumErrorsAt(PathString(At(i))) = 0
                                /\ NumDetailsAt(PathString(At(i))) = 1
                                /\ \A n \in 1..Len(result.details) :
                                      result.details[n].path = PathString(At(i)) =>
                                          result.details[n].passed
                           ELSE /\ NumCallsAt(At(i)) = 1
                                /\ \E n \in 1..Len(walk.calls) :
                                      /\ walk.calls[n].path = At(i)
                                      /\ walk.calls[n].expected = e[i + 1]
                                      /\ walk.calls[n].actual = a[i + 1]
                     /\ \A i \in Min(Len(e), Len(a))..(Len(e) + Len(a)) :
                           NumCallsAt(At(i)) = 0
        /\ (/\ request.expected = Arr(<<Num(1), Num(2), Num(3)>>)
            /\ request.actual = Arr(<<Num(1), Num(2)>>)) =>
              /\ Len(result.errors) = 1
              /\ result.errors[1].type = "ARRAY_LENGTH_MISMATCH"

\* arrays of different lengths whose common part is compared and differs
C9_Witness ==
    /\ Done
    /\ request.expected = Arr(<<Num(1), Num(2), Num(2)>>)
    /\ request.actual = Arr(<<Num(1), Num(1)>>)
    /\ "options" \notin DOMAIN request
    /\ NumErrorsOfTypeAt("ARRAY_LENGTH_MISMATCH", S_root) = 1
    /\ NumErrorsOfTypeAt("VALUE_MISMATCH", IndexSegment(1)) = 1
    /\ NumDetailsAt(IndexSegment(0)) = 1

(***************************************************************************)
(* C10                                                                     *)
(***************************************************************************)

\* a scalar literal that is no directive
IsPlainScalar(v) ==
    /\ v.t \in {"number", "string", "boolean", "null"}
    /\ v.t = "string" => ~isDirective(v.s)

\* the number of elements of items equal to v
Count(items, v) == Cardinality({i \in 1..Len(items) : items[i] = v})

\* b is a permutation of a
IsPermutation(a, b) ==
    /\ Len(a) = Len(b)
    /\ \A i \in 1..Len(a) : Count(a, a[i]) = Count(b, a[i])

\* C10: for arrays of non-directive scalar literals under default options,
\* the ordered mode succeeds exactly when actual equals expected index by
\* index ([1,2,3] against [3,2,1] fails with an error at index 0), and with
\* the ignoreOrder marker the comparison succeeds exactly when actual is a
\* permutation of the expected elements.
C10_ArrayModes ==
    (/\ Done
     /\ "options" \notin DOMAIN request
     /\ IsArray(request.expected)
     /\ IsArray(request.actual)
     /\ \A i \in 1..Len(request.actual.a) : IsPlainScalar(request.actual.a[i])
     /\ \A i \in 1..Len(request.expected.a) :
           \/ IsPlainScalar(request.expected.a[i])
           \/ request.expected.a[i] = Str(KW_IGNORE_ORDER)) =>
        LET e == SelectSeq(request.expected.a, IsNotMarker)
            a == request.actual.a
        IN /\ ~result.threw
           /\ IF e = request.expected.a
              THEN /\ result.success <=> (a = e)
                   /\ (e = <<Num(1), Num(2), Num(3)>> /\ a = <<Num(3), Num(2), Num(1)>>) =>
                         /\ ~result.success
                         /\ NumErrorsOfTypeAt("VALUE_MISMATCH", IndexSegment(0)) = 1
              ELSE result.success <=> IsPermutation(e, a)

\* [3,2,1] is accepted for [1,2,3] under the ignoreOrder marker
C10_Witness ==
    /\ Done
    /\ request.expected = Arr(<<Str(KW_IGNORE_ORDER), Num(1), Num(2), Num(3)>>)
    /\ request.actual = Arr(<<Num(3), Num(2), Num(1)>>)
    /\ "options" \notin DOMAIN request
    /\ result.success
    /\ Len(result.details) = 3

(***************************************************************************)
(* Unordered requests: an expected array with the ignoreOrder marker whose *)
(* elements are literals, a mapping and a directive that matches two of    *)
(* the literals, against the arrays of those literals.                     *)
(***************************************************************************)

S_a == <<"a">>

UnordExpectedItems ==
    {Str(D_startsWith_a), Str(S_ab), Str(S_a), Num(1), Obj(<<Prop(K_a, Num(1))>>)}

UnordActualItems ==
    {Str(S_ab), Str(S_a), Num(1), Obj(<<Prop(K_a, Num(1)), Prop(K_b, Num(2))>>)}

UnordExpected ==
    {Arr(<<Str(KW_IGNORE_ORDER)>> \o items) : items \in SeqsUpTo(UnordExpectedItems, 2)}
        \cup {Arr(<<Str(D_startsWith_a), Str(KW_IGNORE_ORDER), Str(S_ab)>>)}

UnordActual == {Arr(items) : items \in SeqsUpTo(UnordActualItems, 2)}

UnordRequests == Requests(UnordExpected, UnordActual, { [strictMode |-> Bool(TRUE)] })

InitUnordered == InitWith(UnordRequests)

SpecUnordered == InitUnordered /\ [][Next]_vars

\* the bijections of 1..n
Bijections(n) == {p \in [1..n -> 1..n] : \A i, j \in 1..n : p[i] = p[j] => i = j}

\* the rearrangements of a sequence
Rearrangements(items) ==
    {[i \in 1..Len(items) |-> items[p[i]]] : p \in Bijections(Len(items))}

\* what compare returns for the request with another actual, on the engine
\* and at the time of the request's own call
ResultFor(actual) ==
    CompareEngine_compare([request EXCEPT !.actual = actual], walk.registry, StartOfRun, 1).result

\* some one-to-one pairing of the expected and the actual elements makes
\* every pair match
HasPairing(expectedItems, actualItems) ==
    /\ Len(expectedItems) = Len(actualItems)
    /\ \E p \in Bijections(Len(expectedItems)) :
          \A i \in 1..Len(expectedItems) : Matching(expectedItems[i], actualItems[p[i]])

\* the request compares two arrays, the expected one with the ignoreOrder marker
IsUnorderedRequest ==
    /\ IsArray(request.expected)
    /\ IsArray(request.actual)
    /\ \E i \in 1..Len(request.expected.a) : request.expected.a[i] = Str(KW_IGNORE_ORDER)

(***************************************************************************)
(* C11                                                                     *)
(***************************************************************************)

\* C11 (as stated): with the ignoreOrder marker every rearrangement of the
\* actual array gets the same success value as the actual array itself, and
\* the comparison succeeds whenever some one-to-one pairing of the expected
\* and the actual elements makes every pair match.
C11_AsStated ==
    (Done /\ IsUnorderedRequest) =>
        /\ ~result.threw
        /\ \A other \in Rearrangements(request.actual.a) :
              ResultFor(Arr(other)).success = result.success
        /\ HasPairing(SelectSeq(request.expected.a, IsNotMarker), request.actual.a)
              => result.success

\* C11 (what does hold): a comparison under the ignoreOrder marker succeeds
\* only if some one-to-one pairing makes every pair match.
C11_SuccessHasPairing ==
    (Done /\ IsUnorderedRequest /\ ~result.threw /\ result.success) =>
        HasPairing(SelectSeq(request.expected.a, IsNotMarker), request.actual.a)

(***************************************************************************)
(* Partial requests: expected arrays with the ignoreRest marker, some with *)
(* a nested array, the ignore keyword or a directive, against arrays that  *)
(* are shorter, as long and longer.                                        *)
(***************************************************************************)

PartialExpected ==
    {Arr(items \o <<Str(KW_IGNORE_REST)>>) : items \in SeqsUpTo({Num(1), Num(2)}, 2)}
        \cup { Arr(<<Num(1), Str(KW_IGNORE_REST), Num(2)>>),
               Arr(<<Str(KW_IGNORE_REST), Str(KW_IGNORE), Str(D_startsWith_a)>>),
               Arr(<<Arr(<<Num(1), Num(2)>>), Num(2), Str(KW_IGNORE_REST)>>),
               Arr(<<Arr(<<Num(1), Str(KW_IGNORE_REST)>>), Str(KW_IGNORE_REST)>>) }

PartialActual ==
    {Arr(items) : items \in SeqsUpTo({Num(1), Num(2)}, 2)}
        \cup { Arr(<<Num(1), Num(2), Num(3), Num(4), Num(5)>>),
               Arr(<<Num(3), Num(3), Num(3)>>),
               Arr(<<Num(2), Str(S_ab), Num(1)>>),
               Arr(<<Arr(<<Num(1), Num(2)>>), Num(2), Num(7)>>),
               Arr(<<Arr(<<Num(1), Num(3), Num(5)>>), Num(1)>>),
               Num(1) }

PartialRequests == Requests(PartialExpected, PartialActual, { [maxErrors |-> Num(1)] })

InitPartial == InitWith(PartialRequests)

SpecPartial == InitPartial /\ [][Next]_vars

\* the request compares two arrays in the partial mode: the expected one has
\* the ignoreRest marker and not the ignoreOrder marker, which has priority
IsPartialRequest ==
    /\ IsArray(request.expected)
    /\ IsArray(request.actual)
    /\ \E i \in 1..Len(request.expected.a) : request.expected.a[i] = Str(KW_IGNORE_REST)
    /\ \A i \in 1..Len(request.expected.a) : request.expected.a[i] # Str(KW_IGNORE_ORDER)

\* the index segments of the top-level array from index n on
IndicesFrom(n) == {IndexSegment(k) : k \in n..(Len(request.actual.a) - 1)}

\* the path of a record is at or beneath an index >= n of the top-level array
RecordedFrom(n, path) ==
    \E s \in IndicesFrom(n) :
        \/ path = s
        \/ StartsWith(path, s \o <<".">>)
        \/ StartsWith(path, s \o <<"[">>)

(***************************************************************************)
(* C12                                                                     *)
(***************************************************************************)

\* C12: in the partial mode, with n expected elements after stripping the
\* markers: when actual has fewer than n elements the result has exactly one
\* error, an ARRAY_LENGTH_MISMATCH at the array's path, and no element is
\* compared; otherwise each index 0..n-1 is compared exactly once, in order,
\* and no call, error or detail is at or beneath an index >= n; so
\* [1,2,ignoreRest] against [1,2,3,4,5] succeeds with records at [0] and [1]
\* only.
C12_PartialArrays ==
    (Done /\ IsPartialRequest) =>
        LET e == SelectSeq(request.expected.a, IsNotMarker)
            a == request.actual.a
            n == Len(e)
            top == {k \in 1..Len(walk.calls) : Len(walk.calls[k].path) = 1}
        IN /\ ~result.threw
           /\ Len(a) < n =>
                 /\ Len(result.errors) = 1
                 /\ result.errors[1].type = "ARRAY_LENGTH_MISMATCH"
                 /\ result.errors[1].path = S_root
                 /\ Len(walk.calls) = 1
                 /\ result.details = <<>>
           /\ Len(a) >= n =>
                 /\ Cardinality(top) = n
                 /\ \A i \in 0..(n - 1) :
                       \E k \in top :
                           /\ walk.calls[k].path = <<IndexSegment(i)>>
                           /\ walk.calls[k].expected = e[i + 1]
                           /\ walk.calls[k].actual = a[i + 1]
                           /\ Cardinality({j \in top : j < k}) = i
                 /\ \A k \in 1..Len(walk.calls) :
                       walk.calls[k].path # <<>> => walk.calls[k].path[1] \notin IndicesFrom(n)
                 /\ \A k \in 1..Len(result.errors) :
                       ~RecordedFrom(n, result.errors[k].path)
                 /\ \A k \in 1..Len(result.details) :
                       ~RecordedFrom(n, result.details[k].path)
                 /\ NumErrorsOfTypeAt("ARRAY_LENGTH_MISMATCH", S_root) = 0
           /\ (e = <<Num(1), Num(2)>> /\ Len(a) >= 2 /\ a[1] = Num(1) /\ a[2] = Num(2)) =>
                 /\ result.success
                 /\ Len(result.details) = 2
                 /\ result.details[1].path = IndexSegment(0)
                 /\ result.details[2].path = IndexSegment(1)

\* [1,2,ignoreRest] against [1,2,3,4,5]: success, nothing recorded for the
\* indices 2 to 4
C12_Witness ==
    /\ Done
    /\ request.expected = Arr(<<Num(1), Num(2), Str(KW_IGNORE_REST)>>)
    /\ request.actual = Arr(<<Num(1), Num(2), Num(3), Num(4), Num(5)>>)
    /\ result.success
    /\ Len(result.details) = 2

\* [1,2,ignoreRest] against [1]: the length error alone
C12_WitnessShort ==
    /\ Done
    /\ request.expected = Arr(<<Num(1), Num(2), Str(KW_IGNORE_REST)>>)
    /\ request.actual = Arr(<<Num(1)>>)
    /\ NumErrorsOfTypeAt("ARRAY_LENGTH_MISMATCH", S_root) = 1
    /\ Len(walk.calls) = 1

(***************************************************************************)
(* Two calls in sequence                                                   *)
(*                                                                         *)
(* A caller makes the same call twice, either on the engine or on a        *)
(* RecursiveComparer it made for itself.  The objects the calls return     *)
(* hold references to arrays: heap has the arrays, returned the objects.   *)
(***************************************************************************)

\* CompareEngine.compare, with the arrays of its result: errors and details
\* are new arrays of each call (const errors = [], const details = [])
EngineCall(arrays, req, registry, clock, tick) ==
    Let(CompareEngine_compare(req, registry, clock, tick), LAMBDA out :
        [heap |-> IF out.result.threw THEN arrays
                  ELSE arrays \o <<out.result.errors, out.result.details>>,
         returned |-> IF out.result.threw THEN [threw |-> TRUE]
                      ELSE [out.result EXCEPT !.errors = Len(arrays) + 1,
                                              !.details = Len(arrays) + 2],
         result |-> out.result,
         walk |-> out.walk])

\* new RecursiveComparer(parser, registry): its two arrays are new
NewRecursiveComparer(arrays, registry, clock) ==
    [heap |-> arrays \o << <<>>, <<>> >>,
     comparer |-> [st |-> NewComparer(registry, clock),
                   errors |-> Len(arrays) + 1, details |-> Len(arrays) + 2]]

\* RecursiveComparer.compare on the instance obj, with the arrays: this.errors
\* and this.details become new arrays, the walk pushes to them, and the
\* returned object refers to them
RecursiveComparer_compare(obj, arrays, req, registry, clock, tick) ==
    Let(compare([obj.st EXCEPT !.threw = FALSE, !.clock = clock, !.registry = registry],
                req.expected, req.actual, <<>>,
                [context |-> RequestContext(req),
                 options |-> mergedOptions(RequestOptions(req)), tick |-> tick]),
        LAMBDA st :
        [heap |-> arrays \o <<st.errors, st.details>>,
         comparer |-> [st |-> st, errors |-> Len(arrays) + 1, details |-> Len(arrays) + 2],
         returned |-> IF st.threw THEN [threw |-> TRUE]
                      ELSE [threw |-> FALSE,
                            errors |-> Len(arrays) + 1, details |-> Len(arrays) + 2,
                            maxDepthReached |-> Num(st.maxDepthReached)],
         result |-> IF st.threw THEN [threw |-> TRUE]
                    ELSE [threw |-> FALSE, errors |-> st.errors, details |-> st.details,
                          maxDepthReached |-> Num(st.maxDepthReached)],
         walk |-> st])

\* 2024-10-04T00:00:00Z, five seconds before it and six seconds after it, as
\* epoch seconds
T_start == DaysFromCivil(2024, 10, 4) * SecPerDay

TwiceContexts == { [startTimeTest |-> Num(T_start)] }

TwiceExpected ==
    { Num(1), Str(D_timeRange), Str(D_boom),
      Obj(<<Prop(K_a, Str(D_timeRange)), Prop(K_b, Num(1))>>),
      Arr(<<Str(KW_IGNORE_ORDER), Str(D_startsWith_a), Str(S_ab)>>),
      Arr(<<Str(D_unknown), Num(1)>>) }

TwiceActual ==
    { Undefined, Num(1), Num(T_start - 5), Num(T_start + 6),
      Obj(<<Prop(K_a, Num(T_start - 5)), Prop(K_b, Num(2))>>),
      Arr(<<Str(S_a), Str(S_ab)>>),
      Arr(<<Num(1), Num(2)>>) }

WithContext(req, context) ==
    [k \in DOMAIN req \cup {"context"} |-> IF k = "context" THEN context ELSE req[k]]

TwiceRequests ==
    Requests(TwiceExpected, TwiceActual, { [maxErrors |-> Num(1)] })
        \cup {WithContext(r, c) :
                r \in Requests(TwiceExpected, TwiceActual, { [maxErrors |-> Num(1)] }),
                c \in TwiceContexts}

\* the milliseconds one directive evaluation may take
Ticks == {1, 2}

InitTwice ==
    /\ directives = DefaultDirectives
    /\ request \in TwiceRequests
    /\ pc = "ready"
    /\ result = NoResult
    /\ walk = NewComparer(DefaultDirectives, StartOfRun)
    /\ now = StartOfRun
    /\ NoRegistryCalls
    /\ returned = <<>>
    /\ comparers = <<>>
    /\ flight = <<>>
    /\ \/ heap = <<>> /\ comparer = NoComparer
       \/ /\ heap = NewRecursiveComparer(<<>>, DefaultDirectives, StartOfRun).heap
          /\ comparer = NewRecursiveComparer(<<>>, DefaultDirectives, StartOfRun).comparer

\* a registration before the first call
RegisterBeforeCalls(d) ==
    /\ pc = "ready"
    /\ RegisterDirective(d)

\* await engine.compare(request), the first time or the second
CallEngine(tick) ==
    /\ pc \in {"ready", "once"}
    /\ comparer = NoComparer
    /\ Let(EngineCall(heap, request, directives, now, tick), LAMBDA out :
          /\ heap' = out.heap
          /\ returned' = Append(returned, out.returned)
          /\ result' = out.result
          /\ walk' = out.walk
          /\ now' = out.walk.clock)
    /\ pc' = IF pc = "ready" THEN "once" ELSE "twice"
    /\ UNCHANGED <<directives, request, comparer, comparers, flight, registryCalls, parserCalls>>

\* await comparer.compare(expected, actual, [], context, options), the first
\* time or the second
CallComparer(tick) ==
    /\ pc \in {"ready", "once"}
    /\ comparer # NoComparer
    /\ Let(RecursiveComparer_compare(comparer, heap, request, directives, now, tick),
           LAMBDA out :
          /\ heap' = out.heap
          /\ comparer' = out.comparer
          /\ returned' = Append(returned, out.returned)
          /\ result' = out.result
          /\ walk' = out.walk
          /\ now' = out.walk.clock)
    /\ pc' = IF pc = "ready" THEN "once" ELSE "twice"
    /\ UNCHANGED <<directives, request, comparers, flight, registryCalls, parserCalls>>

NextTwice ==
    \/ \E d \in CustomDirectives : RegisterBeforeCalls(d)
    \/ \E tick \in Ticks : CallEngine(tick)
    \/ \E tick \in Ticks : CallComparer(tick)

SpecTwice == InitTwice /\ [][NextTwice]_vars

\* the context of the request supplies the base time
HasBaseTime ==
    \/ Truthy(Field(RequestContext(request), "startTimeTest"))
    \/ Truthy(Field(RequestContext(request), "startTimeScript"))

\* the depth count of a returned object
ReturnedDepth(r) ==
    IF "stats" \in DOMAIN r THEN r.stats.maxDepthReached ELSE r.maxDepthReached

(***************************************************************************)
(* C13                                                                     *)
(***************************************************************************)

\* the second call of a caller: what it returns and what it leaves of the
\* first call's result
C13_SecondCall ==
    (pc = "once" /\ pc' = "twice") =>
        LET first == returned[1]
            second == returned'[2]
        IN /\ returned'[1] = first
           /\ ~first.threw =>
                 /\ heap'[first.errors] = heap[first.errors]
                 /\ heap'[first.details] = heap[first.details]
           /\ HasBaseTime =>
                 /\ second.threw = first.threw
                 /\ ~first.threw =>
                       /\ second.errors # first.errors
                       /\ second.details # first.details
                       /\ heap'[second.errors] = heap[first.errors]
                       /\ heap'[second.details] = heap[first.details]
                       /\ ReturnedDepth(second) = ReturnedDepth(first)
                       /\ "success" \in DOMAIN first => second.success = first.success

\* C13: with the base time in the context and no registration in between, the
\* second of two calls with the same request, on the same engine or on the
\* same comparer, returns the errors and details of the first, in the same
\* order, with the same success value and depth count, in arrays of its own;
\* and the arrays of the first result are, with or without base time, what
\* they were before the second call.
C13_Idempotence == [][C13_SecondCall]_vars

\* a second call on the same comparer, later on the clock, after a first call
\* that left an error and a detail and evaluated a time directive
C13_Witness ==
    /\ pc = "twice"
    /\ HasBaseTime
    /\ comparer # NoComparer
    /\ ~returned[1].threw
    /\ Len(heap[returned[1].errors]) > 0
    /\ Len(heap[returned[1].details]) > 0
    /\ heap[returned[2].errors] = heap[returned[1].errors]
    /\ now # StartOfRun
    /\ \E k \in 1..Len(walk.lookups) : walk.lookups[k] = N_time

\* without a base time in the context the second call may differ: the time
\* directive reads the clock
C13_ClockWitness ==
    /\ pc = "twice"
    /\ ~HasBaseTime
    /\ ~returned[1].threw
    /\ ~returned[2].threw
    /\ heap[returned[2].errors] # heap[returned[1].errors]

(***************************************************************************)
(* Calls in flight                                                         *)
(*                                                                         *)
(* compare is async: a call runs up to an await, and another call may run  *)
(* before it goes on.  Here a walk is cut at the awaits of compareInternal *)
(* in the loops of compareObjects and the compareArrays methods: a call in *)
(* flight has a stack of the loops it is in, and one step handles one item *)
(* of the innermost loop, with the ends of the loops it is the last of.  A node that starts no loop (a leaf, a directive,*)
(* a type or length mismatch) and the search for one element of an         *)
(* unordered array (which walks temporary comparers only) are each handled *)
(* in one step.  The comparers are objects in a store; the wall clock is   *)
(* shared by all calls.                                                    *)
(***************************************************************************)

\* the array mode compareArrays chooses
ArrayMode(expected) ==
    IF \E i \in 1..Len(expected.a) : expected.a[i] = Str(KW_IGNORE_ORDER) THEN "unordered"
    ELSE IF \E i \in 1..Len(expected.a) : expected.a[i] = Str(KW_IGNORE_REST) THEN "partial"
    ELSE "ordered"

\* compareInternal up to its branches: the depth count and the branch
Enter(st, expected, actual, path, cx) ==
    Let([st EXCEPT !.currentDepth = @ + 1,
                   !.maxDepthReached = IF st.currentDepth + 1 > @
                                       THEN st.currentDepth + 1 ELSE @], LAMBDA s0 :
    Let(Branch(s0, expected, path, cx), LAMBDA branch :
        [branch |-> branch,
         st |-> [s0 EXCEPT !.calls = Append(@, [path |-> path, depth |-> s0.currentDepth,
                                                branch |-> branch,
                                                expected |-> expected, actual |-> actual])]]))

\* the node starts a loop over its children
Descends(branch, expected, actual) ==
    \/ branch = "object" /\ actual.t = "object"
    \/ /\ branch = "array"
       /\ IsArray(actual)
       /\ ArrayMode(expected) = "unordered" =>
              Len(SelectSeq(expected.a, IsNotMarker)) = Len(actual.a)
       /\ ArrayMode(expected) = "partial" =>
              Len(SelectSeq(expected.a, IsNotMarker)) <= Len(actual.a)

\* a loop of the walk: i items are behind it
Frame(kind, expected, actual, path) ==
    [kind |-> kind, expected |-> expected, actual |-> actual, path |-> path,
     i |-> 0, matchedActualIndices |-> {}]

\* the call compareInternal(expected, actual, path): done in one step, or
\* entered, with the loop over the children on the stack
Visit(st, stack, expected, actual, path, cx) ==
    Let(Enter(st, expected, actual, path, cx), LAMBDA e :
        IF ~Descends(e.branch, expected, actual)
        THEN [st |-> compareInternal(st, expected, actual, path, cx), stack |-> stack]
        ELSE IF e.branch = "object"
        THEN [st |-> e.st, stack |-> <<Frame("object", expected, actual, path)>> \o stack]
        ELSE Let(SelectSeq(expected.a, IsNotMarker), LAMBDA filteredExpected :
                 [st |-> IF /\ ArrayMode(expected) = "ordered"
                            /\ Len(filteredExpected) # Len(actual.a)
                         THEN LengthMismatch(e.st, filteredExpected, actual.a, path)
                         ELSE e.st,
                  stack |-> <<Frame(ArrayMode(expected), filteredExpected, actual.a, path)>>
                                \o stack]))

\* the loop has no item left
Finished(frame) ==
    CASE frame.kind = "root" -> frame.i >= 1
      [] frame.kind = "object" -> frame.i >= Len(frame.expected.o)
      [] frame.kind = "ordered" ->
             frame.i >= (IF Len(frame.expected) < Len(frame.actual)
                         THEN Len(frame.expected) ELSE Len(frame.actual))
      [] OTHER -> frame.i >= Len(frame.expected)

\* what follows the loop in its method, and the finally of compareInternal
AfterLoop(st, frame, cx) ==
    CASE frame.kind = "root" -> st
      [] frame.kind = "object" ->
             Leave(IF \/ GetProp(frame.expected, KW_EXACT) = Bool(TRUE)
                      \/ Field(cx.options, "strictMode") = Bool(TRUE)
                      \/ ~Truthy(Field(cx.options, "ignoreExtraProperties"))
                   THEN extraKeysLoop(st, 1, frame.expected, frame.actual, frame.path)
                   ELSE st)
      [] OTHER -> Leave(st)

\* one item of the loop frame, the rest of the stack being stack
Item(st, frame, stack, cx) ==
    CASE frame.kind = "root" ->
             Visit(st, stack, frame.expected, frame.actual, frame.path, cx)
      [] frame.kind = "object" ->
             Let(frame.expected.o[frame.i + 1].k, LAMBDA key :
                 IF key = KW_EXACT THEN [st |-> st, stack |-> stack]
                 ELSE IF ~HasKey(frame.actual, key)
                 THEN [st |-> addError(st, Append(frame.path, key), "MISSING_PROPERTY",
                                       frame.expected.o[frame.i + 1].v, Undefined,
                                       Msg("Property '%s' missing in actual object", <<key>>)),
                       stack |-> stack]
                 ELSE Visit(st, stack, frame.expected.o[frame.i + 1].v,
                            GetProp(frame.actual, key), Append(frame.path, key), cx))
      [] frame.kind = "ordered" ->
             IF frame.expected[frame.i + 1] = Str(KW_IGNORE)
             THEN [st |-> addDetail(st, Append(frame.path, IndexSegment(frame.i)), TRUE,
                                    frame.expected[frame.i + 1], frame.actual[frame.i + 1],
                                    Msg("Ignored by directive", <<>>)),
                   stack |-> stack]
             ELSE Visit(st, stack, frame.expected[frame.i + 1], frame.actual[frame.i + 1],
                        Append(frame.path, IndexSegment(frame.i)), cx)
      [] frame.kind = "partial" ->
             Visit(st, stack, frame.expected[frame.i + 1], frame.actual[frame.i + 1],
                   Append(frame.path, IndexSegment(frame.i)), cx)
      [] frame.kind = "unordered" ->
             Let(findMatch(st, frame.i, 0, frame.expected, frame.actual,
                           frame.matchedActualIndices, frame.path, cx), LAMBDA m :
                 IF m.st.threw THEN [st |-> m.st, stack |-> stack]
                 ELSE IF m.found >= 0
                 THEN [st |-> addDetail(m.st, Append(frame.path, IndexSegment(frame.i)), TRUE,
                                        frame.expected[frame.i + 1], frame.actual[m.found + 1],
                                        Msg("Matched in unordered array", <<>>)),
                       stack |-> <<[stack[1] EXCEPT !.matchedActualIndices =
                                                        @ \cup {m.found}]>> \o Tail(stack)]
                 ELSE [st |-> addError(m.st, Append(frame.path, IndexSegment(frame.i)),
                                       "ARRAY_ELEMENT_MISMATCH", frame.expected[frame.i + 1],
                                       Undefined,
                                       Msg("No matching element found in actual array", <<>>)),
                       stack |-> stack])

\* the loops that have no item left end, innermost first: no await is
\* between the last item of a loop and the return of its method
RECURSIVE Unwind(_, _)
Unwind(w, cx) ==
    IF w.st.threw \/ w.stack = <<>> \/ ~Finished(w.stack[1]) THEN w
    ELSE Unwind([st |-> AfterLoop(w.st, w.stack[1], cx), stack |-> Tail(w.stack)], cx)

\* one step of a walk: the next item of the innermost loop
WalkStep(st, stack, cx) ==
    Unwind(Item(st, stack[1], <<[stack[1] EXCEPT !.i = @ + 1]>> \o Tail(stack), cx), cx)

\* the most calls in flight on one engine
MaxCalls == 2

\* a faulty variant of comparerOfCall: the engine keeps one comparer for all
\* its calls
comparerOfCall_shared(store) == 1

\* new RecursiveComparer(this.parser, this.registry): an object of its own
comparerOfCall(store) == Len(store) + 1

\* a comparer in the store: the wall clock is not a part of it
Parked(st) == [st EXCEPT !.clock = StartOfRun]

\* the store with the comparer st at reference k
StoreAt(store, k, st) == IF k > Len(store) THEN Append(store, st) ELSE [store EXCEPT ![k] = st]

\* what stays fixed during the walk of a request; the calls of a flight are
\* over within the millisecond, so that the clock reads the same throughout
WalkContext(req) ==
    [context |-> RequestContext(req), options |-> mergedOptions(RequestOptions(req)),
     tick |-> 0]

FlightRequests ==
    { BareRequest(Num(1), Undefined),
      Request(Obj(<<Prop(K_a, Str(D_boom)),
                    Prop(K_b, Arr(<<Num(1), Str(D_startsWith_a)>>))>>),
              Obj(<<Prop(K_a, Num(1)), Prop(K_b, Arr(<<Num(1), Str(S_ab)>>)),
                    Prop(K_x, Num(2))>>),
              [strictMode |-> Bool(TRUE)]),
      BareRequest(Arr(<<Str(KW_IGNORE_ORDER), Str(D_startsWith_a), Str(S_ab)>>),
                  Arr(<<Str(S_ab), Str(S_a)>>)),
      WithContext(BareRequest(Arr(<<Str(D_timeRange), Num(2), Str(KW_IGNORE_REST)>>),
                              Arr(<<Num(T_start - 5), Num(3), Num(4)>>)),
                  [startTimeTest |-> Num(T_start)]) }

InitFlight ==
    /\ directives = DefaultDirectives
    /\ request = BareRequest(Null, Null)
    /\ pc = "ready"
    /\ result = NoResult
    /\ walk = NewComparer(DefaultDirectives, StartOfRun)
    /\ now = StartOfRun
    /\ heap = <<>>
    /\ comparer = NoComparer
    /\ returned = <<>>
    /\ comparers = <<>>
    /\ flight = <<>>
    /\ NoRegistryCalls

\* the one registration of this caller, made while no call is in flight
RegisterBeforeFlight(d) ==
    /\ flight = <<>>
    /\ directives = DefaultDirectives
    /\ RegisterDirective(d)

\* engine.compare(r) is called: the input validation, which may end the
\* call, then a comparer for the walk
StartCall(r) ==
    /\ Len(flight) < MaxCalls
    /\ IF r.actual = Undefined
       THEN /\ flight' = Append(flight,
                             [request |-> r, self |-> 0, stack |-> <<>>,
                              status |-> "returned", startTime |-> now, overlapped |-> FALSE,
                              result |-> CompareEngine_compare(r, directives, now, 0).result])
            /\ comparers' = comparers
       ELSE /\ flight' = Append(flight,
                             [request |-> r, self |-> comparerOfCall(comparers),
                              stack |-> <<Frame("root", r.expected, r.actual, <<>>)>>,
                              status |-> "walking", startTime |-> now, overlapped |-> FALSE,
                              result |-> NoResult])
            /\ comparers' = StoreAt(comparers, comparerOfCall(comparers),
                                    NewComparer(directives, StartOfRun))
    /\ UNCHANGED <<directives, request, pc, result, walk, now, heap, comparer, returned,
                   registryCalls, parserCalls>>

\* another call is in the middle of its walk
OtherMidWalk(c) ==
    \E d \in 1..Len(flight) :
        /\ d # c
        /\ flight[d].status = "walking"
        /\ flight[d].stack[Len(flight[d].stack)].i >= 1

\* the call c goes on to its next await
StepCall(c) ==
    /\ flight[c].status = "walking"
    /\ Let(WalkStep([comparers[flight[c].self] EXCEPT !.clock = now], flight[c].stack,
                    WalkContext(flight[c].request)), LAMBDA w :
          /\ comparers' = [comparers EXCEPT ![flight[c].self] = Parked(w.st)]
          /\ now' = w.st.clock
          /\ flight' = [flight EXCEPT
                           ![c].stack = w.stack,
                           ![c].overlapped = @ \/ OtherMidWalk(c),
                           ![c].status = IF w.st.threw \/ w.stack = <<>>
                                         THEN "walked" ELSE "walking"])
    /\ UNCHANGED <<directives, request, pc, result, walk, heap, comparer, returned,
                   registryCalls, parserCalls>>

\* comparer.compare returned to the engine, which builds the result of call c
ReturnCall(c) ==
    /\ flight[c].status = "walked"
    /\ flight' = [flight EXCEPT
                     ![c].status = "returned",
                     ![c].result =
                         IF comparers[flight[c].self].threw THEN [threw |-> TRUE]
                         ELSE buildResult(comparers[flight[c].self].errors,
                                          comparers[flight[c].self].details,
                                          flight[c].startTime, now,
                                          Num(comparers[flight[c].self].maxDepthReached))]
    /\ UNCHANGED <<directives, request, pc, result, walk, now, heap, comparer, returned,
                   comparers, registryCalls, parserCalls>>

NextFlight ==
    \/ \E d \in CustomDirectives : RegisterBeforeFlight(d)
    \/ \E r \in FlightRequests : StartCall(r)
    \/ \E c \in 1..Len(flight) : StepCall(c)
    \/ \E c \in 1..Len(flight) : ReturnCall(c)

SpecFlight == InitFlight /\ [][NextFlight]_vars

\* what the call returns when it runs alone on an engine with this registry
Alone(req) == CompareEngine_compare(req, directives, StartOfRun, 1).result

(***************************************************************************)
(* C14                                                                     *)
(***************************************************************************)

\* C14: every call that returned on an engine with several calls in flight,
\* however their steps were interleaved, returned what it returns when it
\* runs alone: the same errors and details in the same order and the same
\* maxDepthReached, or the same rejection.
C14_Isolation ==
    \A c \in 1..Len(flight) :
        flight[c].status = "returned" =>
            /\ flight[c].result.threw = Alone(flight[c].request).threw
            /\ ~flight[c].result.threw =>
                  /\ flight[c].result.errors = Alone(flight[c].request).errors
                  /\ flight[c].result.details = Alone(flight[c].request).details
                  /\ flight[c].result.stats.maxDepthReached =
                         Alone(flight[c].request).stats.maxDepthReached

\* two calls that returned with errors and details, each having taken steps
\* while the other was in the middle of its walk
C14_Witness ==
    /\ Len(flight) >= 2
    /\ \A c \in 1..2 :
          /\ flight[c].status = "returned"
          /\ flight[c].overlapped
          /\ ~flight[c].result.threw
          /\ Len(flight[c].result.errors) > 0
          /\ Len(flight[c].result.details) > 0
    /\ flight[1].request # flight[2].request

(***************************************************************************)
(* CompareRegistry: three maps from names to implementations.  A map is a  *)
(* sequence of entries in insertion order, as the keys of a Map are.       *)
(* An implementation is an object, so never falsy.                         *)
(***************************************************************************)

\* hasMatcher
hasMatcher(map, name) == \E i \in 1..Len(map) : map[i].name = name

\* a faulty variant of registerMatcher: a later registration replaces the
\* earlier one
registerMatcher_overwriting(map, name, matcher) ==
    [threw |-> FALSE,
     matchers |-> IF hasMatcher(map, name)
                  THEN [i \in 1..Len(map) |->
                           IF map[i].name = name THEN [name |-> name, matcher |-> matcher]
                           ELSE map[i]]
                  ELSE Append(map, [name |-> name, matcher |-> matcher])]

\* registerMatcher: throws, leaving the map alone, when the name is taken
registerMatcher(map, name, matcher) ==
    IF hasMatcher(map, name)
    THEN [threw |-> TRUE, matchers |-> map]
    ELSE [threw |-> FALSE, matchers |-> Append(map, [name |-> name, matcher |-> matcher])]

\* getMatcher
getMatcher(map, name) ==
    IF hasMatcher(map, name)
    THEN [threw |-> FALSE, value |-> map[CHOOSE i \in 1..Len(map) : map[i].name = name].matcher]
    ELSE Threw("Unknown matcher")

\* hasTransform
hasTransform(map, name) == \E i \in 1..Len(map) : map[i].name = name

\* registerTransform: the name is the transform's
registerTransform(map, transform) ==
    IF hasTransform(map, transform.name)
    THEN [threw |-> TRUE, transforms |-> map]
    ELSE [threw |-> FALSE, transforms |-> Append(map, transform)]

\* getTransform
getTransform(map, name) ==
    IF hasTransform(map, name)
    THEN [threw |-> FALSE, value |-> map[CHOOSE i \in 1..Len(map) : map[i].name = name]]
    ELSE Threw("Unknown transform")

\* getDirectiveNames, getMatcherNames, getTransformNames: Array.from(map.keys())
getDirectiveNames(map) == [i \in 1..Len(map) |-> map[i].name]

getMatcherNames(map) == [i \in 1..Len(map) |-> map[i].name]

getTransformNames(map) == [i \in 1..Len(map) |-> map[i].name]

\* a faulty variant of clear: the matchers stay
clear_directivesOnly(reg) == [reg EXCEPT !.directives = <<>>]

\* clear
clear(reg) == [directives |-> <<>>, matchers |-> <<>>, transforms |-> <<>>]

\* the three categories, and the operations on the registry reg by category
Categories == {"directive", "matcher", "transform"}

\* the entry a caller registers under name: a directive or a transform has
\* its name, a matcher is passed with it
register(reg, category, name, impl) ==
    CASE category = "directive" ->
             Let(registerDirective(reg.directives, CustomDirective(name, impl, "pass")),
                 LAMBDA r : [threw |-> r.threw, reg |-> [reg EXCEPT !.directives = r.directives]])
      [] category = "matcher" ->
             Let(registerMatcher(reg.matchers, name, [kind |-> impl]),
                 LAMBDA r : [threw |-> r.threw, reg |-> [reg EXCEPT !.matchers = r.matchers]])
      [] category = "transform" ->
             Let(registerTransform(reg.transforms, [name |-> name, kind |-> impl]),
                 LAMBDA r : [threw |-> r.threw, reg |-> [reg EXCEPT !.transforms = r.transforms]])

\* what was passed to register comes back from get as this
Registered(category, name, impl) ==
    CASE category = "directive" -> CustomDirective(name, impl, "pass")
      [] category = "matcher" -> [kind |-> impl]
      [] category = "transform" -> [name |-> name, kind |-> impl]

get(reg, category, name) ==
    CASE category = "directive" ->
             Let(getDirective(reg.directives, name), LAMBDA r :
                 IF r.threw THEN r ELSE [threw |-> FALSE, value |-> r.directive])
      [] category = "matcher" -> getMatcher(reg.matchers, name)
      [] category = "transform" -> getTransform(reg.transforms, name)

has(reg, category, name) ==
    CASE category = "directive" -> hasDirective(reg.directives, name)
      [] category = "matcher" -> hasMatcher(reg.matchers, name)
      [] category = "transform" -> hasTransform(reg.transforms, name)

names(reg, category) ==
    CASE category = "directive" -> getDirectiveNames(reg.directives)
      [] category = "matcher" -> getMatcherNames(reg.matchers)
      [] category = "transform" -> getTransformNames(reg.transforms)

(***************************************************************************)
(* A caller of one registry.  The registry is the three maps; outcome is   *)
(* what the last call did; registrations is the caller's record of what it *)
(* registered with success since the last clear.                           *)
(***************************************************************************)

\* the registry as one value
Registry == [directives |-> directives, matchers |-> matchers, transforms |-> transforms]

\* the names and implementations the caller uses
RegistryNames == {S_a, S_ab}

Implementations == {"ok", "throw"}

\* new CompareRegistry()
InitRegistry ==
    /\ directives = <<>>
    /\ matchers = <<>>
    /\ transforms = <<>>
    /\ outcome = NoOutcome
    /\ registrations = NoRegistrations
    /\ request = BareRequest(Null, Null)
    /\ pc = "ready"
    /\ result = NoResult
    /\ walk = NewComparer(<<>>, StartOfRun)
    /\ now = StartOfRun
    /\ SingleCall
    /\ text = <<>>
    /\ answer = NoAnswer

\* what a registry call leaves alone
NoCall ==
    <<request, pc, result, walk, now, heap, comparer, returned, comparers, flight,
      parserCalls>>

\* registry.registerDirective / registerMatcher / registerTransform
Register(category, name, impl) ==
    /\ Let(register(Registry, category, name, impl), LAMBDA r :
          /\ directives' = r.reg.directives
          /\ matchers' = r.reg.matchers
          /\ transforms' = r.reg.transforms
          /\ outcome' = [op |-> "register", category |-> category, name |-> name,
                         impl |-> impl, threw |-> r.threw]
          /\ registrations' = IF r.threw THEN registrations
                              ELSE [registrations EXCEPT ![category] =
                                       Append(@, [name |-> name, impl |-> impl])])
    /\ UNCHANGED NoCall

\* registry.getDirective / getMatcher / getTransform
Get(category, name) ==
    /\ outcome' = [op |-> "get", category |-> category, name |-> name,
                   returned |-> get(Registry, category, name)]
    /\ UNCHANGED <<directives, matchers, transforms, registrations>>
    /\ UNCHANGED NoCall

\* registry.hasDirective / hasMatcher / hasTransform
Has(category, name) ==
    /\ outcome' = [op |-> "has", category |-> category, name |-> name,
                   returned |-> has(Registry, category, name)]
    /\ UNCHANGED <<directives, matchers, transforms, registrations>>
    /\ UNCHANGED NoCall

\* registry.getDirectiveNames / getMatcherNames / getTransformNames
Names(category) ==
    /\ outcome' = [op |-> "names", category |-> category,
                   returned |-> names(Registry, category)]
    /\ UNCHANGED <<directives, matchers, transforms, registrations>>
    /\ UNCHANGED NoCall

\* registry.clear
Clear ==
    /\ directives' = clear(Registry).directives
    /\ matchers' = clear(Registry).matchers
    /\ transforms' = clear(Registry).transforms
    /\ outcome' = [op |-> "clear",
                   dropped |-> {category \in Categories : registrations[category] # <<>>}]
    /\ registrations' = NoRegistrations
    /\ UNCHANGED NoCall

NextRegistry ==
    \/ \E category \in Categories, name \in RegistryNames, impl \in Implementations :
           Register(category, name, impl)
    \/ \E category \in Categories, name \in RegistryNames : Get(category, name)
    \/ \E category \in Categories, name \in RegistryNames : Has(category, name)
    \/ \E category \in Categories : Names(category)
    \/ Clear

SpecRegistry == InitRegistry /\ [][NextRegistry]_vars

\* the caller's successful registrations in a category, in order
RegistrationsIn(category) == registrations[category]

\* the implementation the caller registered first under the name
FirstRegistered(category, name) ==
    LET mine == SelectSeq(registrations[category], LAMBDA r : r.name = name)
    IN Registered(category, name, mine[1].impl)

IsRegistered(category, name) ==
    \E i \in 1..Len(registrations[category]) : registrations[category][i].name = name

(***************************************************************************)
(* C15                                                                     *)
(***************************************************************************)

\* a call of register or get, seen from the state before it to the state
\* after it
C15_Call ==
    /\ outcome'.op = "register" =>
          /\ outcome'.threw <=> has(Registry, outcome'.category, outcome'.name)
          /\ outcome'.threw => UNCHANGED <<directives, matchers, transforms>>
          /\ ~outcome'.threw =>
                get(Registry', outcome'.category, outcome'.name) =
                    [threw |-> FALSE,
                     value |-> Registered(outcome'.category, outcome'.name, outcome'.impl)]
    /\ outcome'.op = "get" =>
          IF IsRegistered(outcome'.category, outcome'.name)
          THEN outcome'.returned =
                   [threw |-> FALSE,
                    value |-> FirstRegistered(outcome'.category, outcome'.name)]
          ELSE /\ outcome'.returned.threw
               /\ outcome'.returned.error =
                      (CASE outcome'.category = "directive" -> "Unknown directive"
                         [] outcome'.category = "matcher" -> "Unknown matcher"
                         [] outcome'.category = "transform" -> "Unknown transform")

\* C15: each of the three register operations throws exactly when the name is
\* already registered in its category, and then leaves the three maps as
\* they were; each of the three get operations throws 'Unknown ...' when the
\* name is not registered in its category and otherwise returns the
\* implementation that was registered (first) under the name.
C15_FailFast == [][C15_Call]_vars

\* a matcher is registered under a name, and the registration of another
\* matcher under that name was rejected: the first is still the one
C15_Witness ==
    /\ outcome.op = "register"
    /\ outcome.category = "matcher"
    /\ outcome.threw
    /\ outcome.impl = "throw"
    /\ matchers = << [name |-> outcome.name, matcher |-> [kind |-> "ok"]] >>
    /\ Len(transforms) = 1
    /\ Len(directives) = 1

(***************************************************************************)
(* C16                                                                     *)
(***************************************************************************)

\* C16: in every state of a registry, for each category: has(name) holds
\* exactly for the names registered with success in that category since the
\* last clear, and the name listing is those names in registration order (so
\* a registration in another category shows in neither); a has or names call
\* returned just that; and after clear the three maps are empty and every
\* name can be registered in every category.
C16_RegistryInvariant ==
    /\ \A category \in Categories :
          /\ \A name \in RegistryNames :
                has(Registry, category, name) <=> IsRegistered(category, name)
          /\ names(Registry, category) =
                 [i \in 1..Len(RegistrationsIn(category)) |->
                     RegistrationsIn(category)[i].name]
    /\ outcome.op = "has" =>
          outcome.returned = IsRegistered(outcome.category, outcome.name)
    /\ outcome.op = "names" =>
          outcome.returned = [i \in 1..Len(RegistrationsIn(outcome.category)) |->
                                 RegistrationsIn(outcome.category)[i].name]
    /\ outcome.op = "clear" =>
          /\ directives = <<>> /\ matchers = <<>> /\ transforms = <<>>
          /\ \A category \in Categories, name \in RegistryNames, impl \in Implementations :
                ~register(Registry, category, name, impl).threw

\* names were registered in all three categories, and clear has emptied them
C16_Witness ==
    /\ outcome.op = "clear"
    /\ outcome.dropped = Categories
    /\ \A category \in Categories : names(Registry, category) = <<>>

(***************************************************************************)
(* A caller of the parser: a text, and what the last call on it returned   *)
(***************************************************************************)

\* the end of the first match of /\{\{compare:.+?\}\}/ that starts at p
\* (1-based): the position of its last brace, or 0.  The lazy ".+?" takes
\* the least number of characters, none of them a line terminator.
matchEnd(content, p) ==
    IF ~StartsWith(SubSeq(content, p, Len(content)), OPEN) THEN 0
    ELSE Let({e \in (p + Len(OPEN) + 1)..(Len(content) - 1) :
                 /\ content[e] = "}"
                 /\ content[e + 1] = "}"
                 /\ \A i \in (p + Len(OPEN))..(e - 1) : content[i] \notin LineTerminators},
             LAMBDA ends :
                 IF ends = {} THEN 0
                 ELSE (CHOOSE e \in ends : \A f \in ends : e <= f) + 1)

\* content.match(pattern) with the g flag: the matches from position p on,
\* each search going on where the last match ended
RECURSIVE matchAll(_, _)
matchAll(content, p) ==
    IF p > Len(content) THEN <<>>
    ELSE IF matchEnd(content, p) = 0 THEN matchAll(content, p + 1)
    ELSE <<SubSeq(content, p, matchEnd(content, p))>>
             \o matchAll(content, matchEnd(content, p) + 1)

\* findDirectives: matches || []
findDirectives(content) == matchAll(content, 1)

\* compareWithDirective up to the matcher: parse, getDirective, createMatcher
matcherOf(directive, registry) ==
    Let(parse(directive), LAMBDA parsed :
        IF parsed.threw THEN parsed
        ELSE Let(getDirective(registry, parsed.action), LAMBDA found :
                 IF found.threw THEN found
                 ELSE createMatcher(found.directive, parsed)))

\* the most pieces between the opening and the end of a text
MaxBody == 2

OPEN_startsWith == OPEN \o N_startsWith \o <<":">>

BodyPieces == { <<"a">>, <<":">>, <<"\\">>, <<"|">>, <<"\n">>, <<"}">>, <<"{", "5", "}">> }

RECURSIVE Concat(_)
Concat(pieces) == IF pieces = <<>> THEN <<>> ELSE Head(pieces) \o Concat(Tail(pieces))

Bodies == {Concat(pieces) : pieces \in SeqsUpTo(BodyPieces, MaxBody)}

\* texts made of pieces: with and without leading blank, opening, closing
\* braces, and something after them
PieceTexts ==
    {lead \o open \o body \o end :
        lead \in {<<>>, <<" ">>},
        open \in {<<>>, OPEN, OPEN_startsWith},
        body \in Bodies,
        end \in {<<>>, CLOSE, CLOSE \o <<" ">>, CLOSE \o OPEN \o <<"a">> \o CLOSE}}

P_user == <<"u", "s", "e", "r", "_", "[", "0", "-", "9", "]", "{", "5", "}">>

\* the examples of the documentation
ExampleTexts ==
    { OPEN \o N_regex \o <<":">> \o P_user \o CLOSE,
      OPEN \o N_regex \o <<":", "a", "{", "5", "}">> \o CLOSE,
      OPEN \o N_endsWith \o <<":", "a", "\\", ":", "a">> \o CLOSE,
      OPEN \o N_endsWith \o <<":", "a", ":", "a">> \o CLOSE,
      OPEN \o N_contains \o <<":", "\\", "d", ":">> \o CLOSE,
      OPEN \o N_contains \o <<":", "a", "|", "a", ":", "a">> \o CLOSE }

Texts == PieceTexts \cup ExampleTexts

InitParser ==
    /\ text \in Texts
    /\ answer = NoAnswer
    /\ directives = DefaultDirectives
    /\ request = BareRequest(Null, Null)
    /\ pc = "ready"
    /\ result = NoResult
    /\ walk = NewComparer(DefaultDirectives, StartOfRun)
    /\ now = StartOfRun
    /\ SingleCall
    /\ matchers = <<>>
    /\ transforms = <<>>
    /\ outcome = NoOutcome
    /\ registrations = NoRegistrations

\* what a parser call leaves alone
NoParserEffect ==
    <<text, directives, request, pc, result, walk, now, heap, comparer, returned, comparers,
      flight, registryCalls>>

\* parser.isDirective(text)
IsDirective ==
    /\ answer' = [op |-> "isDirective", returned |-> isDirective(text)]
    /\ UNCHANGED NoParserEffect

\* parser.parse(text)
Parse ==
    /\ answer' = [op |-> "parse", returned |-> parse(text)]
    /\ UNCHANGED NoParserEffect

\* parser.findDirectives(text)
FindDirectives ==
    /\ answer' = [op |-> "findDirectives", returned |-> findDirectives(text)]
    /\ UNCHANGED NoParserEffect

\* the matcher the comparer makes for the expected string text
CreateMatcher ==
    /\ answer' = [op |-> "createMatcher", returned |-> matcherOf(text, directives)]
    /\ UNCHANGED NoParserEffect

NextParser == IsDirective \/ Parse \/ FindDirectives \/ CreateMatcher

SpecParser == InitParser /\ [][NextParser]_vars

\* the text between the "{{compare:" of the trimmed text and its last two
\* characters, and its main clause: what is before the first "|"
Inner(s) == Slice(Trim(s), Len(OPEN), Len(CLOSE))

MainClause(s) == Split(Inner(s), "|")[1]

\* the position in t of the first "}}" after the opening wrapper, or 0
FirstClose(t) ==
    LET closes == {k \in (Len(OPEN) + 1)..(Len(t) - 1) : t[k] = "}" /\ t[k + 1] = "}"}
    IN IF closes = {} THEN 0 ELSE CHOOSE k \in closes : \A j \in closes : k <= j

\* the trimmed text starts with the wrapper, has a character inside, and the
\* first "}}" after the wrapper is its end
EndedByFirstClose(s) ==
    LET t == Trim(s)
    IN /\ StartsWith(t, OPEN)
       /\ FirstClose(t) > Len(OPEN) + 1
       /\ FirstClose(t) + 1 = Len(t)

(***************************************************************************)
(* C17                                                                     *)
(***************************************************************************)

\* C17 (as stated): isDirective(s) is true exactly when s, trimmed, starts
\* with "{{compare:", has a character inside and is ended by the first "}}"
\* after the wrapper.  Texts with three closing braces in a row, where a
\* single brace and the closing pair cannot be told apart, are left out.
C17_AsStated ==
    (answer.op = "isDirective" /\ ~Includes(text, <<"}", "}", "}">>)) =>
        (answer.returned <=> EndedByFirstClose(text))

\* C17 (what does hold): a text that isDirective accepts starts, trimmed,
\* with the wrapper, ends with "}}" and has a character in between; and a
\* text ended by the first "}}", with no line terminator inside, is accepted.
C17_Wrapper ==
    answer.op = "isDirective" =>
        /\ answer.returned =>
              /\ StartsWith(Trim(text), OPEN)
              /\ EndsWith(Trim(text), CLOSE)
              /\ Len(Inner(text)) >= 1
        /\ (/\ EndedByFirstClose(text)
            /\ \A i \in 1..Len(Inner(text)) : Inner(text)[i] \notin LineTerminators)
               => answer.returned

(***************************************************************************)
(* C18                                                                     *)
(***************************************************************************)

\* what parse is to return for a text that isDirective accepts: the segments
\* of its main clause and the transform clauses, in order
ParsedAsStated(parsed, s) ==
    LET segments == splitByUnescapedColon(MainClause(s))
        clauses == Split(Inner(s), "|")
    IN IF segments = <<>> THEN parsed.threw
       ELSE /\ ~parsed.threw
            /\ parsed.action = segments[1]
            /\ parsed.args = Tail(segments)
            /\ parsed.transforms =
                   [k \in 1..(Len(clauses) - 1) |-> parseTransform(clauses[k + 1])]

\* C18 (as stated): parse(s) throws exactly when s is no directive or its
\* main clause has no segment; otherwise the action is non-empty and is the
\* first segment of the text between the wrapper and the closing braces of
\* the trimmed s, with args and transforms in declaration order.
C18_AsStated ==
    answer.op = "parse" =>
        IF ~isDirective(text) THEN answer.returned.threw
        ELSE /\ ParsedAsStated(answer.returned, text)
             /\ ~answer.returned.threw => answer.returned.action # <<>>

\* C18 (what does hold): for a text without blanks around it, all of the
\* above but the non-empty action.
C18_TrimmedParse ==
    (answer.op = "parse" /\ text = Trim(text)) =>
        IF ~isDirective(text) THEN answer.returned.threw
        ELSE ParsedAsStated(answer.returned, text)

(***************************************************************************)
(* C19                                                                     *)
(***************************************************************************)

\* replace(/\\:/g, ':'): every "\:" becomes ":", all else stays
RECURSIVE UnescapeColons(_)
UnescapeColons(s) ==
    IF s = <<>> THEN <<>>
    ELSE IF Len(s) >= 2 /\ s[1] = "\\" /\ s[2] = ":"
    THEN <<":">> \o UnescapeColons(SubSeq(s, 3, Len(s)))
    ELSE <<s[1]>> \o UnescapeColons(Tail(s))

StringPatternNames == {N_startsWith, N_endsWith, N_contains, N_regex}

\* the main clause of the text is a string-pattern action, a colon, and more
HasStringPattern(s) ==
    /\ isDirective(s)
    /\ \E name \in StringPatternNames : StartsWith(MainClause(s), name \o <<":">>)

\* the text of the main clause after the action's colon
AfterAction(s) ==
    LET name == CHOOSE name \in StringPatternNames : StartsWith(MainClause(s), name \o <<":">>)
    IN SubSeq(MainClause(s), Len(name) + 2, Len(MainClause(s)))

\* C19 (as stated): for a directive whose main clause is startsWith, endsWith,
\* contains or regex, a colon and a text, the pattern of the matcher is that
\* text with every "\:" replaced by ":" and all else preserved.
C19_AsStated ==
    (answer.op = "createMatcher" /\ HasStringPattern(text)) =>
        /\ ~answer.returned.threw
        /\ answer.returned.m.pattern = UnescapeColons(AfterAction(text))

\* C19 (what does hold): the same for a text without blanks around it.
C19_TrimmedPattern ==
    (answer.op = "createMatcher" /\ HasStringPattern(text) /\ text = Trim(text)) =>
        /\ ~answer.returned.threw
        /\ answer.returned.m.pattern = UnescapeColons(AfterAction(text))

(***************************************************************************)
(* C20                                                                     *)
(***************************************************************************)

\* the strings of found are in content from position p on, in this order and
\* without overlap
RECURSIVE InOrder(_, _, _)
InOrder(found, content, p) ==
    \/ found = <<>>
    \/ \E q \in p..(Len(content) - Len(found[1]) + 1) :
          /\ SubSeq(content, q, q + Len(found[1]) - 1) = found[1]
          /\ InOrder(Tail(found), content, q + Len(found[1]))

\* C20 (as stated): findDirectives(s) returns substrings of s, in order and
\* without overlap, each of which isDirective accepts; and for a text d
\* without blanks around it that isDirective accepts it returns [d].
C20_AsStated ==
    answer.op = "findDirectives" =>
        /\ InOrder(answer.returned, text, 1)
        /\ \A k \in 1..Len(answer.returned) : isDirective(answer.returned[k])
        /\ (text = Trim(text) /\ isDirective(text)) => answer.returned = <<text>>

\* C20 (what does hold): the first two of the three.
C20_FoundAreDirectives ==
    answer.op = "findDirectives" =>
        /\ InOrder(answer.returned, text, 1)
        /\ \A k \in 1..Len(answer.returned) : isDirective(answer.returned[k])

(***************************************************************************)
(* Number requests: a number directive at the root, in range mode over     *)
(* bounds that are numerals, that have a numeric prefix only, or that have *)
(* none, and in tolerance mode with absolute and percentage tolerances,    *)
(* against the integers around the windows and values that are no numbers. *)
(***************************************************************************)

NumBounds == { <<"0">>, <<"3">>, <<"-", "2">>, <<"x">>, <<"3", "x">> }

NumValues == { <<"4", "2">>, <<"1", "0", "0">>, <<"-", "2", "0">>, <<"x">> }

NumTolerances ==
    { <<PlusMinus, "5">>, <<PlusMinus, "1", "0", "%">>, <<"5">>, <<PlusMinus, "x">> }

D_number(mode, x, y) ==
    OPEN \o N_number \o <<":">> \o mode \o <<":">> \o x \o <<":">> \o y \o CLOSE

NumExpected ==
    {Str(D_number(S_range, x, y)) : x \in NumBounds, y \in NumBounds}
        \cup {Str(D_number(S_tolerance, x, y)) : x \in NumValues, y \in NumTolerances}

NumActual ==
    {Num(n) : n \in (-24..-16) \cup (-4..5) \cup (35..49) \cup (88..112)}
        \cup {Str(<<"4", "2">>), Null}

NumRequests == {BareRequest(e, a) : e \in NumExpected, a \in NumActual}

InitNumber == InitWith(NumRequests)

SpecNumber == InitNumber /\ [][Next]_vars

\* s is a decimal integer numeral: an optional sign and digits, nothing else
IsNumeral(s) ==
    LET digits == IF s # <<>> /\ s[1] \in {"+", "-"} THEN Tail(s) ELSE s
    IN digits # <<>> /\ \A i \in 1..Len(digits) : IsDigit(digits[i])

NumeralValue(s) ==
    IF s[1] = "-" THEN -DigitRun(s, 2, -1)
    ELSE IF s[1] = "+" THEN DigitRun(s, 2, -1)
    ELSE DigitRun(s, 1, -1)

\* s has no numeric prefix at all
HasNoNumber(s) == s = <<>> \/ (~IsDigit(s[1]) /\ ~(s[1] \in {"+", "-"} /\ Len(s) > 1 /\ IsDigit(s[2])))

\* t is +-N or +-N%
IsToleranceSpec(t) ==
    /\ t # <<>> /\ t[1] = PlusMinus
    /\ LET n == IF t[Len(t)] = "%" THEN SubSeq(t, 2, Len(t) - 1) ELSE Tail(t)
       IN n # <<>> /\ \A i \in 1..Len(n) : IsDigit(n[i])

\* the arguments of the directive at the root of the request
RootArgs == parse(request.expected.s).args

\* the call ended with the directive reported as a directive-error
OneDirectiveError ==
    /\ ~result.threw /\ ~result.success
    /\ Len(result.errors) = 1
    /\ result.errors[1].type = "DIRECTIVE_ERROR"
    /\ result.errors[1].path = S_root

\* the range directive succeeded exactly on the numbers of [min, max]
RangeAsStated(min, max) ==
    /\ ~result.threw
    /\ result.success <=> /\ request.actual.t = "number"
                          /\ min <= request.actual.n /\ request.actual.n <= max
    /\ ~result.success => Len(result.errors) = 1 /\ result.errors[1].type = "PATTERN_MISMATCH"

\* the tolerance directive succeeded exactly when |actual - value| <= allowed,
\* allowed being N or |value| * N / 100
ToleranceAsStated(value, t) ==
    LET percent == t[Len(t)] = "%"
        n == NumeralValue(IF percent THEN SubSeq(t, 2, Len(t) - 1) ELSE Tail(t))
    IN /\ ~result.threw
       /\ result.success <=>
             /\ request.actual.t = "number"
             /\ IF percent
                THEN 100 * Abs(request.actual.n - value) <= Abs(value) * n
                ELSE Abs(request.actual.n - value) <= n
       /\ ~result.success => Len(result.errors) = 1 /\ result.errors[1].type = "PATTERN_MISMATCH"

(***************************************************************************)
(* C21                                                                     *)
(***************************************************************************)

\* C21 (as stated): the number directive succeeds exactly when actual is a
\* number and, in range mode, min <= actual <= max, or, in tolerance mode,
\* |actual - value| <= allowed (N for +-N, |value| * N / 100 for +-N%); a
\* range with min > max or with a bound that is not a number fails at
\* construction and is reported as a directive-error.
C21_AsStated ==
    (Done /\ request \in NumRequests) =>
        LET mode == RootArgs[1]
            x == RootArgs[2]
            y == RootArgs[3]
        IN /\ mode = S_range =>
                 IF ~IsNumeral(x) \/ ~IsNumeral(y) THEN OneDirectiveError
                 ELSE IF NumeralValue(x) > NumeralValue(y) THEN OneDirectiveError
                 ELSE RangeAsStated(NumeralValue(x), NumeralValue(y))
           /\ (mode = S_tolerance /\ IsNumeral(x) /\ IsToleranceSpec(y)) =>
                 ToleranceAsStated(NumeralValue(x), y)

\* C21 (what does hold): the same for the bounds that are numerals or have
\* no numeric prefix at all; 42 +-5 accepts exactly 37..47 and 100 +-10%
\* exactly 90..110.
C21_NumeralBounds ==
    (Done /\ request \in NumRequests) =>
        LET mode == RootArgs[1]
            x == RootArgs[2]
            y == RootArgs[3]
        IN /\ (mode = S_range /\ (IsNumeral(x) \/ HasNoNumber(x))
                              /\ (IsNumeral(y) \/ HasNoNumber(y))) =>
                 IF ~IsNumeral(x) \/ ~IsNumeral(y) THEN OneDirectiveError
                 ELSE IF NumeralValue(x) > NumeralValue(y) THEN OneDirectiveError
                 ELSE RangeAsStated(NumeralValue(x), NumeralValue(y))
           /\ (mode = S_tolerance /\ IsNumeral(x) /\ IsToleranceSpec(y)) =>
                 ToleranceAsStated(NumeralValue(x), y)
           /\ (RootArgs = <<S_tolerance, <<"4", "2">>, <<PlusMinus, "5">> >>
                 /\ request.actual.t = "number") =>
                 (result.success <=> request.actual.n \in 37..47)
           /\ (RootArgs = <<S_tolerance, <<"1", "0", "0">>, <<PlusMinus, "1", "0", "%">> >>
                 /\ request.actual.t = "number") =>
                 (result.success <=> request.actual.n \in 90..110)

(***************************************************************************)
(* Time-range requests: a time:range directive at the root in each of the  *)
(* eight units and in a unit that is none, with one-sided and two-sided    *)
(* windows, against timestamps (epoch seconds) on, just inside and just    *)
(* outside the ends of the windows; the base time comes from the context.  *)
(***************************************************************************)

ISO_start ==
    << "2", "0", "2", "4", "-", "1", "0", "-", "0", "4", "T",
       "0", "0", ":", "0", "0", ":", "0", "0", "Z" >>

BaseContexts == { [startTimeTest |-> Num(T_start)], [startTimeTest |-> Str(ISO_start)] }

U_second == <<"s", "e", "c", "o", "n", "d">>

RangeUnits == {validUnits[i] : i \in 1..Len(validUnits)} \cup {U_second}

OneSided == { <<"+", "5">>, <<"-", "5">>, <<"0">>, <<"5", "x">>, <<"x">> }

TwoSided ==
    { << <<"-", "5">>, <<"+", "5">> >>, << <<"0">>, <<"0">> >>, << <<"2">>, <<"5">> >>,
      << <<"5">>, <<"2">> >>, << <<"-", "5">>, <<"x">> >> }

D_time(mode, args) == OPEN \o N_time \o <<":">> \o mode \o <<":">> \o Join(args, <<":">>) \o CLOSE

RangeDirectives(unit) ==
    {D_time(S_range, <<v, unit>>) : v \in OneSided}
        \cup {D_time(S_range, <<w[1], w[2], unit>>) : w \in TwoSided}

\* directives with one argument and with four
MiscountedRanges ==
    { D_time(S_range, <<U_seconds>>),
      D_time(S_range, << <<"1">>, <<"2">>, <<"3">>, U_seconds >>) }

\* timestamps around the multiples of the unit that the windows end at
Around(unit) ==
    IF unit \notin {validUnits[i] : i \in 1..Len(validUnits)} \/ unit = U_milliseconds
    THEN {Num(T_start + e) : e \in {-1, 0, 1}}
    ELSE {Num(T_start + k * UnitSeconds(unit) + e) :
              k \in {-6, -5, -4, 0, 2, 3, 5, 6}, e \in {-1, 0, 1}}

NotTimestamps == {Str(<<"x">>), Null}

TimeRangeRequests ==
    {WithContext(BareRequest(Str(d), a), c) :
        d \in MiscountedRanges, a \in Around(U_seconds), c \in BaseContexts}
    \cup UNION {{WithContext(BareRequest(Str(d), a), c) :
                    d \in RangeDirectives(unit), a \in Around(unit) \cup NotTimestamps,
                    c \in BaseContexts} : unit \in RangeUnits}

InitTimeRange == InitWith(TimeRangeRequests)

SpecTimeRange == InitTimeRange /\ [][Next]_vars

\* actual - base in seconds, for the requests whose base is T_start
SecondsAfterStart == request.actual.n - T_start

\* the difference lies in the window [before, after] of the unit
InWindow(seconds, unit, before, after) ==
    IF unit = U_milliseconds
    THEN before <= seconds * 1000 /\ seconds * 1000 <= after
    ELSE before * UnitSeconds(unit) <= seconds /\ seconds <= after * UnitSeconds(unit)

\* the time:range directive succeeded exactly on the timestamps of the window
WindowAsStated(unit, before, after) ==
    /\ ~result.threw
    /\ result.success <=> /\ request.actual.t = "number"
                          /\ InWindow(SecondsAfterStart, unit, before, after)
    /\ ~result.success => Len(result.errors) = 1 /\ result.errors[1].type = "PATTERN_MISMATCH"

\* what the claim says of a time:range directive with the arguments args
RangeAsClaimed(args) ==
    LET unit == args[Len(args)]
        v == NumeralValue(args[1])
    IN IF Len(args) \notin {2, 3} \/ ~IsValidUnit(unit) THEN OneDirectiveError
       ELSE IF \E i \in 1..(Len(args) - 1) : ~IsNumeral(args[i]) THEN OneDirectiveError
       ELSE IF Len(args) = 3 THEN WindowAsStated(unit, v, NumeralValue(args[2]))
       ELSE IF v >= 0 THEN WindowAsStated(unit, 0, v)
       ELSE WindowAsStated(unit, v, 0)

(***************************************************************************)
(* C22                                                                     *)
(***************************************************************************)

\* C22 (as stated): time:range builds the window [before, after] from
\* [before, after, unit], or [0, value] / [value, 0] from [value, unit]; it
\* succeeds exactly when actual - base, in the unit, lies in the window, ends
\* included; any other argument count, a value that is not a number or a
\* unit outside the eight recognised ones fails at construction.
C22_AsStated ==
    (Done /\ request \in TimeRangeRequests) => RangeAsClaimed(Tail(RootArgs))

\* C22 (what does hold): the same for the values that are numerals or have no
\* numeric prefix at all.
C22_NumeralValues ==
    (Done /\ request \in TimeRangeRequests) =>
        LET args == Tail(RootArgs) IN
        (\A i \in 1..(Len(args) - 1) : IsNumeral(args[i]) \/ HasNoNumber(args[i]))
            => RangeAsClaimed(args)

(***************************************************************************)
(* Time-exact requests: a time:exact directive at the root without offset, *)
(* with positive and negative offsets in several units, and with one and   *)
(* with three arguments, against timestamps one second before, on and one  *)
(* second after each expected time; and the documented scenario.           *)
(***************************************************************************)

ISO_base ==
    << "2", "0", "2", "5", "-", "1", "1", "-", "0", "5", "T",
       "1", "5", ":", "3", "0", ":", "0", "0", "+", "0", "1", ":", "0", "0" >>

ISO_abfahrt ==
    << "2", "0", "2", "5", "-", "1", "1", "-", "0", "5", "T",
       "1", "5", ":", "4", "0", ":", "3", "0", "+", "0", "1", ":", "0", "0" >>

S_630 == <<"6", "3", "0">>

\* the offsets of the requests, with the time each adds to 2024-10-04T00:00Z
\* (one month on is 2024-11-04, one year back is 2023-10-04)
ExactOffsets ==
    { [args |-> <<>>, sec |-> 0, ms |-> 0],
      [args |-> <<S_630, U_seconds>>, sec |-> 630, ms |-> 0],
      [args |-> << <<"-">> \o S_630, U_seconds >>, sec |-> -630, ms |-> 0],
      [args |-> << <<"2">>, U_hours >>, sec |-> 7200, ms |-> 0],
      [args |-> << <<"-", "3">>, U_days >>, sec |-> -3 * 86400, ms |-> 0],
      [args |-> << <<"1">>, U_weeks >>, sec |-> 7 * 86400, ms |-> 0],
      [args |-> << <<"1">>, U_months >>, sec |-> 31 * 86400, ms |-> 0],
      [args |-> << <<"-", "1">>, U_years >>, sec |-> -366 * 86400, ms |-> 0],
      [args |-> << <<"5", "0", "0">>, U_milliseconds >>, sec |-> 0, ms |-> 500] }

D_exact(args) ==
    IF args = <<>> THEN OPEN \o N_time \o <<":">> \o S_exact \o CLOSE
    ELSE D_time(S_exact, args)

\* directives with one argument and with three
MiscountedExacts ==
    { D_exact(<<S_630>>), D_exact(<<S_630, U_seconds, U_seconds>>) }

ExactActuals ==
    {Num(T_start + o.sec + e) : o \in ExactOffsets, e \in {-1, 0, 1}} \cup NotTimestamps

Scenario ==
    WithContext(BareRequest(Str(D_exact(<<S_630, U_seconds>>)), Str(ISO_abfahrt)),
                [startTimeTest |-> Str(ISO_base)])

TimeExactRequests ==
    {WithContext(BareRequest(Str(D_exact(o.args)), a), [startTimeTest |-> Num(T_start)]) :
        o \in ExactOffsets, a \in ExactActuals}
    \cup {WithContext(BareRequest(Str(d), a), [startTimeTest |-> Num(T_start)]) :
             d \in MiscountedExacts, a \in ExactActuals}
    \cup {Scenario}

InitTimeExact == InitWith(TimeExactRequests)

SpecTimeExact == InitTimeExact /\ [][Next]_vars

\* the offset the directive of the request names
OffsetOfRequest ==
    CHOOSE o \in ExactOffsets : Str(D_exact(o.args)) = request.expected

\* the request has a time:exact directive with no or with two arguments, and
\* the base time 2024-10-04T00:00Z
IsExactRequest ==
    /\ request \in TimeExactRequests \ {Scenario}
    /\ \E o \in ExactOffsets : Str(D_exact(o.args)) = request.expected

\* the difference a mismatch of the request is to report, when small enough
\* to be written in milliseconds
SmallDifference ==
    LET seconds == request.actual.n - T_start - OffsetOfRequest.sec
    IN IF seconds > -1000000 /\ seconds < 1000000
       THEN <<IntToString(seconds * 1000 - OffsetOfRequest.ms)>>
       ELSE <<>>

(***************************************************************************)
(* C23                                                                     *)
(***************************************************************************)

\* C23: time:exact takes no argument (offset 0) or exactly [offset, unit],
\* and fails at construction with any other count; it succeeds exactly when
\* the actual timestamp equals base + offset(unit) to the millisecond, for
\* positive and negative offsets, and otherwise fails reporting the
\* difference in milliseconds; with base 2025-11-05T15:30:00+01:00 and
\* offset 630 seconds, actual 2025-11-05T15:40:30+01:00 succeeds.
C23_ExactTime ==
    /\ (Done /\ request = Scenario) => (~result.threw /\ result.success)
    /\ (Done /\ request \in TimeExactRequests /\ request.expected.s \in MiscountedExacts)
          => OneDirectiveError
    /\ (Done /\ IsExactRequest) =>
          /\ ~result.threw
          /\ result.success <=>
                /\ request.actual.t = "number"
                /\ request.actual.n = T_start + OffsetOfRequest.sec
                /\ OffsetOfRequest.ms = 0
          /\ ~result.success =>
                /\ Len(result.errors) = 1
                /\ result.errors[1].type = "PATTERN_MISMATCH"
                /\ (request.actual.t = "number" /\ SmallDifference # <<>>)
                      => result.errors[1].message.args = SmallDifference

\* C23 (witness): the documented scenario succeeded, through the offset
C23_Witness ==
    /\ Done /\ request = Scenario /\ result.success
    /\ Len(result.details) = 1
    /\ fromISO(ISO_abfahrt).t # fromISO(ISO_base).t

\* C23 (witness): a negative offset matched, and a mismatch reported a
\* negative difference
C23_NegativeWitness ==
    /\ Done /\ IsExactRequest
    /\ OffsetOfRequest.sec = -630
    /\ \/ result.success
       \/ /\ ~result.success /\ request.actual.t = "number"
          /\ result.errors[1].message.args = << <<"-", "1", "0", "0", "0">> >>

(***************************************************************************)
(* Base-time requests: an object whose two properties hold the same        *)
(* time:exact directive, against an object whose two properties hold the   *)
(* same timestamp; the context supplies startTimeTest, startTimeScript,    *)
(* both or neither.  The run starts at 2024-10-04T00:00Z on the wall       *)
(* clock, and one directive evaluation takes 1 ms.                         *)
(***************************************************************************)

T_script == T_start + 630

SuppliedContexts ==
    { [startTimeTest |-> Num(T_start)],
      [startTimeTest |-> Str(ISO_start)],
      [startTimeScript |-> Num(T_script)],
      [startTimeTest |-> Num(T_start), startTimeScript |-> Num(T_script)] }

\* startTimeTest is the epoch itself
EpochContexts == { [startTimeTest |-> Num(0), startTimeScript |-> Num(T_script)] }

BaseDirectives == { D_exact(<<>>), D_exact(<<S_630, U_seconds>>) }

BaseTimestamps == {Num(t) : t \in {0, 630, T_start, T_start + 630, T_script + 630, T_start + 1}}

Twin(v) == Obj(<<Prop(K_a, v), Prop(K_b, v)>>)

TwinRequests == {BareRequest(Twin(Str(d)), Twin(a)) : d \in BaseDirectives, a \in BaseTimestamps}

BaseRequests ==
    TwinRequests
        \cup {WithContext(r, c) : r \in TwinRequests, c \in SuppliedContexts \cup EpochContexts}

InitBaseTime == InitWith(BaseRequests)

SpecBaseTime == InitBaseTime /\ [][Next]_vars

\* the errors and the details the call recorded at a path
ErrorsAt(pathString) == SelectSeq(result.errors, LAMBDA e : e.path = pathString)

DetailsAt(pathString) == SelectSeq(result.details, LAMBDA d : d.path = pathString)

\* what was recorded at a path, without the path
OutcomeAt(pathString) ==
    [errors |-> [k \in 1..Len(ErrorsAt(pathString)) |->
                    [type |-> ErrorsAt(pathString)[k].type,
                     message |-> ErrorsAt(pathString)[k].message]],
     passed |-> Len(DetailsAt(pathString))]

\* epoch seconds of a context value of the requests
SecondsOf(value) == IF value.t = "number" THEN value.n ELSE T_start

\* the base time by the stated priority, the run starting at T_start
StatedBase(context) ==
    IF "startTimeTest" \in DOMAIN context THEN SecondsOf(context.startTimeTest)
    ELSE IF "startTimeScript" \in DOMAIN context THEN SecondsOf(context.startTimeScript)
    ELSE T_start

\* both directives of the request were evaluated against the base time
SameBase(base) ==
    LET offset == IF request.expected.o[1].v = Str(D_exact(<<>>)) THEN 0 ELSE 630
        hit == request.actual.o[1].v.n = base + offset
    IN /\ ~result.threw
       /\ OutcomeAt(K_a) = OutcomeAt(K_b)
       /\ hit => result.success
       /\ ~hit => Len(ErrorsAt(K_a)) = 1 /\ Len(ErrorsAt(K_b)) = 1

(***************************************************************************)
(* C24                                                                     *)
(***************************************************************************)

\* C24 (as stated): within one comparison every time directive is evaluated
\* against one and the same base time: context.startTimeTest when supplied,
\* else context.startTimeScript when supplied, else the wall-clock time; two
\* time directives of one comparison never see different base times.
C24_AsStated ==
    (Done /\ request \in BaseRequests) => SameBase(StatedBase(RequestContext(request)))

\* C24 (what does hold): when the context supplies a start time other than
\* the epoch, both directives are evaluated against it, startTimeTest first.
C24_SuppliedBase ==
    (Done /\ request \in BaseRequests /\ RequestContext(request) \in SuppliedContexts)
        => SameBase(StatedBase(RequestContext(request)))

\* C24 (what does hold): startTimeTest = 0 reads as not supplied
C24_EpochIsNotSupplied ==
    (Done /\ request \in BaseRequests /\ RequestContext(request) \in EpochContexts)
        => SameBase(T_script)

\* C24 (what does hold): without a start time each directive reads the wall
\* clock when it is evaluated, the second 1 ms after the first
C24_ClockReadTwice ==
    (Done /\ request \in TwinRequests) =>
        /\ Len(ErrorsAt(K_b)) = 1
        /\ Len(ErrorsAt(K_a)) = 0
              => ErrorsAt(K_b)[1].message.args = << <<"-", "1">> >>

(***************************************************************************)
(* C25                                                                     *)
(***************************************************************************)

\* the leftmost element of actual (1-based) outside consumed that passes an
\* isolated trial against e, or 0
Leftmost(e, actual, consumed) ==
    LET fit == {j \in (1..Len(actual)) \ consumed : Matching(e, actual[j])}
    IN IF fit = {} THEN 0 ELSE CHOOSE j \in fit : \A k \in fit : j <= k

\* the greedy assignment of the expected elements from i on: for each the
\* element of actual it consumes, or 0
RECURSIVE Greedy(_, _, _, _)
Greedy(expected, actual, i, consumed) ==
    IF i > Len(expected) THEN <<>>
    ELSE LET j == Leftmost(expected[i], actual, consumed)
         IN <<j>> \o Greedy(expected, actual, i + 1, IF j = 0 THEN consumed ELSE consumed \cup {j})

\* the trials of the walk that reported no error
PassedTrials == {k \in 1..Len(walk.trials) : Len(walk.trials[k].errors) = 0}

\* C25: under the ignoreOrder marker, with unequal lengths exactly one
\* ARRAY_LENGTH_MISMATCH is recorded and no element is examined; otherwise
\* each expected index i yields exactly one record at path [i]: a passing
\* detail when some actual element not yet consumed passes an isolated trial
\* with zero errors (the leftmost such is consumed), else an
\* ARRAY_ELEMENT_MISMATCH; no actual element is consumed twice, and nothing
\* a trial recorded appears in the outer logs.
C25_GreedyUnordered ==
    (Done /\ IsUnorderedRequest) =>
        LET e == SelectSeq(request.expected.a, IsNotMarker)
            a == request.actual.a
            picks == Greedy(e, a, 1, {})
            At(i) == PathString(<<IndexSegment(i - 1)>>)
        IN /\ ~result.threw
           /\ IF Len(e) # Len(a)
              THEN /\ Len(result.errors) = 1
                   /\ result.errors[1].type = "ARRAY_LENGTH_MISMATCH"
                   /\ result.errors[1].path = S_root
                   /\ result.details = <<>>
                   /\ walk.trials = <<>>
                   /\ Len(walk.calls) = 1
              ELSE /\ Len(result.errors) + Len(result.details) = Len(e)
                   /\ \A i \in 1..Len(e) :
                         IF picks[i] > 0
                         THEN /\ NumErrorsAt(At(i)) = 0
                              /\ Len(DetailsAt(At(i))) = 1
                              /\ DetailsAt(At(i))[1].passed
                              /\ DetailsAt(At(i))[1].actual = a[picks[i]]
                         ELSE /\ NumDetailsAt(At(i)) = 0
                              /\ NumErrorsAt(At(i)) = 1
                              /\ NumErrorsOfTypeAt("ARRAY_ELEMENT_MISMATCH", At(i)) = 1
                   /\ \A k \in PassedTrials :
                         picks[walk.trials[k].at.i + 1] = walk.trials[k].at.j + 1
                   /\ \A k, l \in PassedTrials :
                         walk.trials[k].at.j = walk.trials[l].at.j => k = l
                   /\ \A k \in 1..Len(walk.trials) :
                         \A l \in PassedTrials :
                             l < k => walk.trials[k].at.j # walk.trials[l].at.j

\* C25 (witness): the second expected element took the first actual element,
\* the first expected element none, after a trial that recorded an error
C25_Witness ==
    /\ Done /\ IsUnorderedRequest
    /\ Len(request.actual.a) = 2
    /\ Len(result.errors) = 1
    /\ result.errors[1].type = "ARRAY_ELEMENT_MISMATCH"
    /\ result.errors[1].path = IndexSegment(0)
    /\ Len(result.details) = 1
    /\ result.details[1].path = IndexSegment(1)
    /\ result.details[1].actual = request.actual.a[1]
    /\ \E k \in 1..Len(walk.trials) : Len(walk.trials[k].errors) > 0

\* C25 (witness): unequal lengths
C25_LengthWitness ==
    /\ Done /\ IsUnorderedRequest
    /\ Len(request.actual.a) = 2
    /\ Len(result.errors) = 1
    /\ result.errors[1].type = "ARRAY_LENGTH_MISMATCH"

(***************************************************************************)
(* Items requests: a mapping whose key items holds an array of mappings    *)
(* with the keys x and richtung, in the three array modes, against arrays  *)
(* of one and two such mappings, under ignore-paths that name richtung at  *)
(* every index, the elements, the array, and richtung at the root.         *)
(***************************************************************************)

K_items == <<"i", "t", "e", "m", "s">>

K_richtung == <<"r", "i", "c", "h", "t", "u", "n", "g">>

S_N == <<"N">>

S_S == <<"S">>

Item_(x, richtung) == Obj(<<Prop(K_x, Num(x)), Prop(K_richtung, Str(richtung))>>)

ItemsExpected ==
    {Obj(<<Prop(K_items, Arr(marker \o items))>>) :
        marker \in {<<>>, <<Str(KW_IGNORE_ORDER)>>, <<Str(KW_IGNORE_REST)>>},
        items \in {<<Item_(1, S_N)>>, <<Item_(1, S_N), Item_(2, S_N)>>}}

ItemsActual ==
    {Obj(<<Prop(K_items, Arr(items))>>) :
        items \in SeqsUpTo({Item_(1, S_N), Item_(1, S_S), Item_(2, S_S), Item_(9, S_S)}, 2)}

ItemsIgnorePaths ==
    { << [path |-> <<K_items, STAR, K_richtung>>] >>,
      << [path |-> <<K_items, STAR>>] >>,
      << [path |-> <<K_items>>] >>,
      << [path |-> <<K_richtung>>] >> }

ItemsRequests ==
    Requests(ItemsExpected, ItemsActual, {[ignorePaths |-> p] : p \in ItemsIgnorePaths})

InitItems == InitWith(ItemsRequests)

SpecItems == InitItems /\ [][Next]_vars

\* some configured ignore-path is a prefix of the full path
Suppressed(path) == IgnoredBy(path) # {}

\* the expected element e at index i (0-based) of items is satisfied by the
\* actual element a, mismatches at suppressed full paths not counting
ItemOk(i, e, a) ==
    \/ Suppressed(<<K_items, IndexSegment(i)>>)
    \/ \A key \in {K_x, K_richtung} :
          \/ Suppressed(<<K_items, IndexSegment(i), key>>)
          \/ GetProp(e, key) = GetProp(a, key)

\* the mode of the expected array of the request
ItemsMode == ArrayMode(request.expected.o[1].v)

\* the request succeeds when suppression goes by the full path
ItemsOk ==
    LET e == SelectSeq(request.expected.o[1].v.a, IsNotMarker)
        a == request.actual.o[1].v.a
    IN \/ Suppressed(<<K_items>>)
       \/ IF ItemsMode = "unordered"
          THEN /\ Len(e) = Len(a)
               /\ \E p \in Bijections(Len(e)) : \A i \in 1..Len(e) : ItemOk(i - 1, e[i], a[p[i]])
          ELSE /\ IF ItemsMode = "partial" THEN Len(a) >= Len(e) ELSE Len(a) = Len(e)
               /\ \A i \in 1..Len(e) : ItemOk(i - 1, e[i], a[i])

(***************************************************************************)
(* C26                                                                     *)
(***************************************************************************)

\* C26 (as stated): whether a node's mismatch is suppressed depends only on
\* whether some configured ignore-path is a prefix of its full path from the
\* root, for every node, those inside the elements of an ignoreOrder array
\* included: ["items", "*", "richtung"] suppresses richtung mismatches at
\* every index in every array mode, and an ignore-path never suppresses a
\* node whose full path it does not prefix.
C26_AsStated ==
    (Done /\ request \in ItemsRequests) => (~result.threw /\ (result.success <=> ItemsOk))

\* C26 (what does hold): the same in the ordered and the partial mode
C26_OrderedAndPartial ==
    (Done /\ request \in ItemsRequests /\ ItemsMode # "unordered")
        => (~result.threw /\ (result.success <=> ItemsOk))

\* C26 (what does hold): inside the elements of an ignoreOrder array an
\* ignore-path is matched against the path from the element
C26_TrialPaths ==
    (Done /\ request \in ItemsRequests) =>
        \A k \in 1..Len(walk.trials) :
            \A n \in 1..Len(walk.trials[k].calls) :
                LET c == walk.trials[k].calls[n] IN
                /\ Len(c.path) <= 1
                /\ c.branch = "ignorePath" <=> Suppressed(c.path)

(***************************************************************************)
(* Budget requests: mappings and arrays in the three array modes against   *)
(* values that differ in several places at once (values, missing and extra *)
(* keys, lengths, elements), under maxErrors 1 and 2, alone, with          *)
(* strictMode and with maxDepth 1.                                         *)
(***************************************************************************)

BudgetExpected ==
    { Obj(<<Prop(K_a, Num(1)), Prop(K_b, Num(2)), Prop(K_s, Num(3))>>),
      Obj(<<Prop(K_a, Num(1)), Prop(K_s, Arr(<<Num(1), Num(2)>>))>>),
      Arr(<<Num(1), Num(2), Num(3)>>),
      Arr(<<Str(KW_IGNORE_ORDER), Num(1), Num(2)>>),
      Arr(<<Str(KW_IGNORE_REST), Num(1), Num(2)>>) }

BudgetActual ==
    { Obj(<<>>),
      Obj(<<Prop(K_a, Num(9)), Prop(K_b, Num(9)), Prop(K_s, Num(9))>>),
      Obj(<<Prop(K_a, Num(1)), Prop(K_b, Num(2)), Prop(K_s, Num(3))>>),
      Obj(<<Prop(K_a, Num(1)), Prop(K_x, Num(1)), Prop(K_y, Num(2))>>),
      Obj(<<Prop(K_a, Num(9)), Prop(K_s, Arr(<<Num(8), Num(9)>>))>>),
      Arr(<<Num(8), Num(9)>>),
      Arr(<<Num(8), Num(9), Num(7)>>),
      Arr(<<Num(1), Num(2)>>),
      Num(1) }

BudgetOptions ==
    {[maxErrors |-> Num(n)] : n \in {1, 2}}
        \cup {[maxErrors |-> Num(n), strictMode |-> Bool(TRUE)] : n \in {1, 2}}
        \cup {[maxErrors |-> Num(n), maxDepth |-> Num(1)] : n \in {1, 2}}

BudgetRequests == {Request(e, a, o) : e \in BudgetExpected, a \in BudgetActual, o \in BudgetOptions}

InitBudget == InitWith(BudgetRequests)

SpecBudget == InitBudget /\ [][Next]_vars

\* the kinds of error recorded by a loop around compareInternal, or by
\* compareInternal ahead of its budget check
UnbudgetedTypes ==
    {"MISSING_PROPERTY", "EXTRA_PROPERTY", "ARRAY_ELEMENT_MISMATCH", "DIRECTIVE_ERROR"}

(***************************************************************************)
(* C27                                                                     *)
(***************************************************************************)

\* C27 (as stated): with options.maxErrors = N, once N errors are recorded
\* the comparison records no further error, so the result never holds more
\* than N errors, whatever kinds of error the rest of the tree would
\* produce.
C27_AsStated ==
    (Done /\ request \in BudgetRequests) =>
        (~result.threw /\ Len(result.errors) <= request.options.maxErrors.n)

\* C27 (what does hold): the errors beyond the N-th are missing-property,
\* extra-property, array-element and depth errors; no node entered with the
\* budget spent and within the depth limit records anything.
C27_BudgetAtEntry ==
    (Done /\ request \in BudgetRequests) =>
        /\ ~result.threw
        /\ \A k \in 1..Len(result.errors) :
              k > request.options.maxErrors.n =>
                  /\ result.errors[k].type \in UnbudgetedTypes
                  /\ result.errors[k].type = "DIRECTIVE_ERROR"
                        => result.errors[k].message.fmt = "Maximum depth %s exceeded"
        /\ \A k \in 1..Len(walk.calls) :
              walk.calls[k].branch = "maxErrors" =>
                  /\ NumErrorsAt(PathString(walk.calls[k].path)) = 0
                  /\ NumDetailsAt(PathString(walk.calls[k].path)) = 0

\* C27 (what does hold): a comparison that records no error of those kinds
\* holds at most N errors
C27_ValueErrorsOnly ==
    (/\ Done /\ request \in BudgetRequests
     /\ \A k \in 1..Len(result.errors) :
           result.errors[k].type \notin UnbudgetedTypes)
        => Len(result.errors) <= request.options.maxErrors.n

(***************************************************************************)
(* Depth requests: trees three and four levels deep, through mappings, an  *)
(* ordered array and an ignoreOrder array, against equal trees, trees with *)
(* another leaf and a scalar, under maxDepth 0 to 3.                       *)
(***************************************************************************)

Nest(leaf) == Obj(<<Prop(K_x, Obj(<<Prop(K_y, Num(leaf))>>))>>)

DepthPairs ==
    { <<Obj(<<Prop(K_a, Nest(1)), Prop(K_b, Num(1))>>),
        Obj(<<Prop(K_a, Nest(l)), Prop(K_b, Num(1))>>)>> : l \in {1, 2} }
    \cup { <<Obj(<<Prop(K_s, Arr(<<Num(1), Nest(1)>>))>>),
             Obj(<<Prop(K_s, Arr(<<Num(1), Nest(l)>>))>>)>> : l \in {1, 2} }
    \cup { <<Obj(<<Prop(K_s, Arr(<<Str(KW_IGNORE_ORDER), Num(1), Nest(1)>>))>>),
             Obj(<<Prop(K_s, Arr(<<Nest(l), Num(1)>>))>>)>> : l \in {1, 2} }
    \cup { <<Arr(<<Str(KW_IGNORE_ORDER), Num(1)>>), Arr(<<Num(l)>>)>> : l \in {1, 2} }
    \cup { <<Obj(<<Prop(K_a, Nest(1))>>), Num(1)>>, <<Num(1), Num(1)>>, <<Null, Num(1)>> }

DepthLimits == 0..3

DepthRequests ==
    {Request(p[1], p[2], [maxDepth |-> Num(d)]) : p \in DepthPairs, d \in DepthLimits}

InitDepth == InitWith(DepthRequests)

SpecDepth == InitDepth /\ [][Next]_vars

\* the limit of the request
Limit == request.options.maxDepth.n

\* the call c of a comparer, at nesting depth depth counted from the root of
\* the request, obeyed the limit: beyond it the node is cut, within it not
ObeysLimit(c, depth) == (c.branch = "maxDepth") <=> (depth > Limit)

\* the node of the walk's call c was cut: one DIRECTIVE_ERROR at its path and
\* no call beneath it
Cut(c) ==
    /\ NumErrorsOfTypeAt("DIRECTIVE_ERROR", PathString(c.path)) = 1
    /\ NumErrorsAt(PathString(c.path)) = 1
    /\ NumDetailsAt(PathString(c.path)) = 0
    /\ \A n \in 1..Len(walk.calls) : ~Beneath(walk.calls[n].path, c.path)

(***************************************************************************)
(* C28                                                                     *)
(***************************************************************************)

\* C28 (as stated): with options.maxDepth supplied (any non-negative
\* integer), every node whose nesting depth counted from the root of the
\* comparison (root = 1) exceeds maxDepth records exactly one
\* DIRECTIVE_ERROR at its path and nothing beneath it is compared, while
\* nodes at depth <= maxDepth are compared normally; this holds for every
\* node, those inside elements of ignoreOrder arrays included, and the rest
\* of the comparison is not aborted.
C28_AsStated ==
    (Done /\ request \in DepthRequests) =>
        /\ ~result.threw
        /\ \A k \in 1..Len(walk.calls) :
              LET c == walk.calls[k] IN
              /\ ObeysLimit(c, Len(c.path) + 1)
              /\ c.branch = "maxDepth" => Cut(c)
        /\ \A k \in 1..Len(walk.trials) :
              \A n \in 1..Len(walk.trials[k].calls) :
                  LET c == walk.trials[k].calls[n] IN
                  ObeysLimit(c, Len(walk.trials[k].at.path) + Len(c.path) + 1)
        /\ ChildrenChecked

\* C28 (what does hold): for maxDepth >= 1 the same of the nodes outside the
\* elements of ignoreOrder arrays; inside them the depth is counted from the
\* element.
C28_OutsideTrials ==
    (Done /\ request \in DepthRequests /\ Limit >= 1) =>
        /\ ~result.threw
        /\ \A k \in 1..Len(walk.calls) :
              LET c == walk.calls[k] IN
              /\ c.depth = Len(c.path) + 1
              /\ ObeysLimit(c, c.depth)
              /\ c.branch = "maxDepth" => Cut(c)
        /\ \A k \in 1..Len(walk.trials) :
              \A n \in 1..Len(walk.trials[k].calls) :
                  LET c == walk.trials[k].calls[n] IN
                  /\ c.depth = Len(c.path) + 1
                  /\ ObeysLimit(c, c.depth)
        /\ ChildrenChecked

\* C28 (what does hold): maxDepth = 0 is no limit
C28_ZeroIsNoLimit ==
    (Done /\ request \in DepthRequests /\ Limit = 0) =>
        /\ \A k \in 1..Len(walk.calls) : walk.calls[k].branch # "maxDepth"
        /\ \A k \in 1..Len(result.errors) : result.errors[k].type # "DIRECTIVE_ERROR"

(***************************************************************************)
(* C29                                                                     *)
(***************************************************************************)

\* an expected tree whose walk can leave compareInternal through each of its
\* exits: null (a), ignore keyword (b), directive (c), scalar (k), suppressed
\* path (q), array (s), object (o), and, under the options below, the depth
\* limit (beneath s and o) and the error budget (p)
ExitsExpected ==
    { Obj(<<Prop(K_a, Null), Prop(K_b, Str(KW_IGNORE)), Prop(<<"c">>, Str(D_startsWith_a)),
            Prop(<<"k">>, Num(1)), Prop(<<"q">>, Num(7)), Prop(K_s, Arr(<<Num(1)>>)),
            Prop(<<"o">>, Obj(<<Prop(K_x, Num(1))>>)), Prop(<<"p">>, Num(5))>>),
      Obj(<<Prop(K_s, Arr(<<Str(KW_IGNORE_ORDER), Obj(<<Prop(K_x, Obj(<<Prop(K_y, Num(1))>>))>>),
                            Num(2)>>)),
            Prop(<<"p">>, Num(5))>>) }

ExitsActual ==
    { Obj(<<Prop(K_a, Null), Prop(K_b, Num(3)), Prop(<<"c">>, Str(S_ab)),
            Prop(<<"k">>, Num(1)), Prop(<<"q">>, Num(8)), Prop(K_s, Arr(<<Num(1)>>)),
            Prop(<<"o">>, Obj(<<Prop(K_x, Num(1))>>)), Prop(<<"p">>, Num(5))>>),
      Obj(<<Prop(K_a, Num(1)), Prop(<<"c">>, Num(4)),
            Prop(<<"k">>, Num(2)), Prop(K_s, Arr(<<Num(1), Num(2)>>)),
            Prop(<<"o">>, Num(1)), Prop(<<"p">>, Num(6))>>),
      Obj(<<Prop(K_s, Arr(<<Num(2), Obj(<<Prop(K_x, Obj(<<Prop(K_y, Num(1))>>))>>)>>)),
            Prop(<<"p">>, Num(5))>>),
      Obj(<<Prop(K_s, Arr(<<Obj(<<Prop(K_x, Obj(<<Prop(K_y, Num(2))>>))>>), Num(3)>>)),
            Prop(<<"p">>, Num(5))>>),
      Num(1) }

ExitsLimits == {<<d, n>> : d \in {0, 1, 2}, n \in {0, 1, 2}}

ExitsOptions ==
    {[maxDepth |-> Num(l[1]), maxErrors |-> Num(l[2])] : l \in ExitsLimits}
        \cup {[maxDepth |-> Num(l[1]), maxErrors |-> Num(l[2]),
               ignorePaths |-> << [path |-> << <<"q">> >>] >>] : l \in ExitsLimits}

ExitsRequests == {Request(e, a, o) : e \in ExitsExpected, a \in ExitsActual, o \in ExitsOptions}

InitExits == InitWith(ExitsRequests)

SpecExits == InitExits /\ [][Next]_vars

\* the largest depth at which a logged call entered a node
RECURSIVE DeepestEntry(_)
DeepestEntry(calls) ==
    IF calls = <<>> THEN 0
    ELSE LET rest == DeepestEntry(Tail(calls))
         IN  IF Head(calls).depth > rest THEN Head(calls).depth ELSE rest

\* each node was entered with the counter at the number of nodes on its
\* branch (its path from the comparer's root, plus the root)
CountsBranch(calls) == \A k \in 1..Len(calls) : calls[k].depth = Len(calls[k].path) + 1

\* the exits taken by the logged calls
ExitsTaken(calls) == {calls[k].branch : k \in 1..Len(calls)}

AllExits ==
    {"maxDepth", "maxErrors", "ignorePath", "null", "ignore", "directive", "array", "object",
     "primitive"}

\* C29: the depth counter of a comparer is incremented once on entering a
\* node and decremented once on leaving it through any exit: every node is
\* entered with the counter at the number of nodes on its branch, the counter
\* is 0 when compare() has returned, and maxDepthReached is the largest depth
\* at which the comparer entered a node; the statistics report that number.
\* The same holds of every temporary comparer of an unordered trial, which
\* counts from the element it compares.
C29_DepthBalanced ==
    (Done /\ request \in ExitsRequests) =>
        /\ ~result.threw
        /\ walk.currentDepth = 0
        /\ CountsBranch(walk.calls)
        /\ Len(walk.calls) >= 1
        /\ walk.maxDepthReached = DeepestEntry(walk.calls)
        /\ result.stats.maxDepthReached = Num(walk.maxDepthReached)
        /\ \A k \in 1..Len(walk.trials) :
              LET t == walk.trials[k] IN
              /\ t.currentDepth = 0
              /\ CountsBranch(t.calls)
              /\ t.maxDepthReached = DeepestEntry(t.calls)

\* C29 witness: one finished walk that left compareInternal through each of
\* its nine exits, the depth limit cutting below depth 2
C29_Witness ==
    /\ Done
    /\ request \in ExitsRequests
    /\ ExitsTaken(walk.calls) = AllExits
    /\ walk.maxDepthReached = 3
    /\ walk.currentDepth = 0

\* C29 witness: a finished walk with unordered trials whose temporary
\* comparers went two levels below the element and returned to 0
C29_TrialWitness ==
    /\ Done
    /\ request \in ExitsRequests
    /\ \E k \in 1..Len(walk.trials) :
          /\ walk.trials[k].maxDepthReached = 3
          /\ walk.trials[k].currentDepth = 0
    /\ walk.maxDepthReached = 2

(***************************************************************************)
(* C30                                                                     *)
(***************************************************************************)

\* expected arrays with the two markers at any position, any number of times
DispatchExpected ==
    {Arr(items) : items \in SeqsUpTo({Str(KW_IGNORE_ORDER), Str(KW_IGNORE_REST), Num(1), Num(2)}, 3)}
        \cup {Arr(<<Num(1), Str(KW_IGNORE_REST), Num(2), Str(KW_IGNORE_ORDER)>>),
              Arr(<<Str(KW_IGNORE_REST), Str(KW_IGNORE_ORDER), Num(1), Num(1)>>),
              Arr(<<Num(2), Str(KW_IGNORE_REST), Str(KW_IGNORE_REST), Num(1)>>)}

\* actual arrays (two of them holding the text of a marker as data) and
\* actual values that are no array
DispatchActual ==
    {Arr(items) : items \in SeqsUpTo({Num(1), Num(2)}, 2)}
        \cup {Arr(<<Str(KW_IGNORE_REST)>>), Arr(<<Num(1), Str(KW_IGNORE_ORDER)>>),
              Arr(<<Num(2), Num(1), Num(1)>>)}
        \cup {Num(1), Null, Str(S_ab), Bool(TRUE), Obj(<<Prop(<<"0">>, Num(1))>>)}

\* the same below a key, where the actual value may also be undefined
DispatchRequests ==
    {BareRequest(e, a) : e \in DispatchExpected, a \in DispatchActual}
        \cup {BareRequest(Obj(<<Prop(K_s, e)>>), Obj(<<Prop(K_s, a)>>)) :
                 e \in {x \in DispatchExpected : Len(x.a) <= 2},
                 a \in DispatchActual \cup {Undefined}}

InitDispatch == InitWith(DispatchRequests)

SpecDispatch == InitDispatch /\ [][Next]_vars

\* the elements of an expected array that are data, in order
RECURSIVE DataOf(_)
DataOf(items) ==
    IF items = <<>> THEN <<>>
    ELSE IF Head(items) \in {Str(KW_IGNORE_ORDER), Str(KW_IGNORE_REST)} THEN DataOf(Tail(items))
    ELSE <<Head(items)>> \o DataOf(Tail(items))

HasMarker(items, marker) == \E i \in 1..Len(items) : items[i] = Str(marker)

\* the length error recorded at a path, if it is the only error there
OnlyLengthError(path, expected, actual) ==
    /\ NumErrorsAt(PathString(path)) = 1
    /\ \E k \in 1..Len(result.errors) :
          /\ result.errors[k].path = PathString(path)
          /\ result.errors[k].type = "ARRAY_LENGTH_MISMATCH"
          /\ result.errors[k].expected = expected
          /\ result.errors[k].actual = Num(Len(actual))

\* the calls and the trials the walk made on the elements of the array at path
ElementOf(path, p) == Len(p) = Len(path) + 1 /\ SubSeq(p, 1, Len(path)) = path

ElementCalls(path) == {k \in 1..Len(walk.calls) : ElementOf(path, walk.calls[k].path)}

ElementTrials(path) == {k \in 1..Len(walk.trials) : ElementOf(path, walk.trials[k].at.path)}

\* the array node c was dispatched as stated
Dispatched(c) ==
    LET data == DataOf(c.expected.a)
        a == c.actual
        here == PathString(c.path)
        At(i) == Append(c.path, IndexSegment(i))
    IN IF ~IsArray(a)
       THEN /\ NumErrorsAt(here) = 1
            /\ NumErrorsOfTypeAt("TYPE_MISMATCH", here) = 1
            /\ NumDetailsAt(here) = 0
            /\ ElementCalls(c.path) = {}
            /\ ElementTrials(c.path) = {}
       ELSE /\ NumErrorsOfTypeAt("TYPE_MISMATCH", here) = 0
            /\ \A k \in ElementCalls(c.path) : ~IsMarker(walk.calls[k].expected)
            /\ \A k \in ElementTrials(c.path) : ~IsMarker(walk.trials[k].calls[1].expected)
            /\ IF HasMarker(c.expected.a, KW_IGNORE_ORDER)
               THEN /\ ElementCalls(c.path) = {}
                    /\ IF Len(data) # Len(a.a)
                       THEN /\ OnlyLengthError(c.path, Num(Len(data)), a.a)
                            /\ ElementTrials(c.path) = {}
                            /\ \A i \in 0..Len(c.expected.a) :
                                  NumErrorsAt(PathString(At(i))) + NumDetailsAt(PathString(At(i))) = 0
                       ELSE /\ NumErrorsAt(here) = 0
                            /\ \A i \in 0..(Len(data) - 1) :
                                  /\ NumErrorsAt(PathString(At(i))) + NumDetailsAt(PathString(At(i))) = 1
                                  /\ \E k \in ElementTrials(c.path) :
                                        /\ walk.trials[k].at.i = i
                                        /\ walk.trials[k].calls[1].expected = data[i + 1]
                            /\ \A k \in ElementTrials(c.path) :
                                  /\ walk.trials[k].at.i < Len(data)
                                  /\ walk.trials[k].calls[1].expected = data[walk.trials[k].at.i + 1]
                                  /\ walk.trials[k].calls[1].actual = a.a[walk.trials[k].at.j + 1]
               ELSE /\ ElementTrials(c.path) = {}
                    /\ \A k \in ElementCalls(c.path) :
                          \E i \in 0..(Len(data) - 1) :
                              /\ i < Len(a.a)
                              /\ walk.calls[k].path = At(i)
                              /\ walk.calls[k].expected = data[i + 1]
                              /\ walk.calls[k].actual = a.a[i + 1]
                    /\ IF HasMarker(c.expected.a, KW_IGNORE_REST)
                       THEN IF Len(a.a) < Len(data)
                            THEN /\ NumErrorsAt(here) = 1
                                 /\ NumErrorsOfTypeAt("ARRAY_LENGTH_MISMATCH", here) = 1
                                 /\ ElementCalls(c.path) = {}
                            ELSE /\ NumErrorsAt(here) = 0
                                 /\ \A i \in 0..(Len(data) - 1) : NumCallsAt(At(i)) = 1
                       ELSE /\ IF Len(data) # Len(a.a)
                               THEN OnlyLengthError(c.path, Num(Len(data)), a.a)
                               ELSE NumErrorsAt(here) = 0
                            /\ \A i \in 0..(Len(data) - 1) :
                                  i < Len(a.a) => NumCallsAt(At(i)) = 1

ArrayNodes == {k \in 1..Len(walk.calls) : walk.calls[k].branch = "array"}

\* C30: the ignoreOrder and ignoreRest markers are found anywhere in the
\* expected array and removed before the strategy runs: no marker is ever
\* compared with an actual element, and lengths and indices are those of
\* the remaining elements; with ignoreOrder present (ignoreRest present or
\* not) the unordered strategy runs and unequal lengths are one
\* ARRAY_LENGTH_MISMATCH; with ignoreRest alone the partial strategy runs;
\* with neither the ordered one; an actual value that is no array yields
\* exactly one TYPE_MISMATCH at the array's path and nothing beneath it.
C30_ArrayDispatch ==
    (Done /\ request \in DispatchRequests) =>
        /\ ~result.threw
        /\ ("a" \in DOMAIN request.expected /\ request.actual # Undefined) => ArrayNodes = {1}
        /\ \A k \in ArrayNodes : Dispatched(walk.calls[k])

\* C30 witness: both markers, neither of them first; the two data elements
\* are found in the actual array in the other order and the comparison
\* succeeds
C30_Witness ==
    /\ Done
    /\ request \in DispatchRequests
    /\ request.expected = Arr(<<Num(1), Str(KW_IGNORE_REST), Num(2), Str(KW_IGNORE_ORDER)>>)
    /\ request.actual = Arr(<<Num(2), Num(1)>>)
    /\ Len(walk.trials) = 3
    /\ result.success

\* C30 witness: both markers and a longer actual array: one
\* ARRAY_LENGTH_MISMATCH, the surplus is not ignored
C30_BothMarkersLengthWitness ==
    /\ Done
    /\ request \in DispatchRequests
    /\ request.expected = Arr(<<Str(KW_IGNORE_REST), Num(1), Str(KW_IGNORE_ORDER)>>)
    /\ request.actual = Arr(<<Num(1), Num(2)>>)
    /\ Len(result.errors) = 1
    /\ result.errors[1].type = "ARRAY_LENGTH_MISMATCH"

\* C30 witness: an actual value below a key that is no array
C30_TypeWitness ==
    /\ Done
    /\ request \in DispatchRequests
    /\ request.actual = Obj(<<Prop(K_s, Undefined)>>)
    /\ Len(result.errors) = 1
    /\ result.errors[1].type = "TYPE_MISMATCH"
    /\ result.errors[1].path = K_s

=============================================================================
